---- MODULE Spec2Model ----
(***************************************************************************)
(* Brighter-fatter kernel calibration (lsst.ip.isr.BrighterFatterKernel):  *)
(* the calibration record, getLengths, repackCorrelations and the codec    *)
(* (toDict / fromDict / toTable / fromTable), as a state machine over one  *)
(* live calibration x, its persisted form `stored`, and the calibration y *)
(* an import returned.  Construction from a camera (SpecCamera), the       *)
(* detector kernel averaged from amplifier kernels (SpecAggregate) and the *)
(* containers toDict and fromDict share by reference (SpecShared) are      *)
(* state machines of their own over the same variables.                    *)
(*                                                                         *)
(* Python values are modelled as follows.  A dict is a function whose      *)
(* DOMAIN is its key set; keys are iterated in insertion order, which is   *)
(* the order of AmpOrder / DetOrder.  A list or 1-D array is a sequence, a *)
(* 2-D array a sequence of rows, rawXcorrs[amp] a sequence of 2-D arrays.  *)
(* Floats are integers, not-a-number is the sentinel NaN.  A validity      *)
(* value is one of the strings "True", "False", "1", "0", "[]", so that     *)
(* bool(v) and `v is False` are different tests.  Schema versions are in   *)
(* tenths.                                                                 *)
(* An operation returns a record with an err field: "none" or the error    *)
(* the Python code raises.                                                 *)
(***************************************************************************)
EXTENDS Integers, Sequences, FiniteSets, TLC

\* x    the live calibration
\* x0   the calibration as it was constructed or populated
\* stored  what the last successful export of x wrote: a mapping
\*      (form "dict"), a table list (form "table"), or nothing yet
\* y    the calibration the last import returned (None if none or it failed)
\* op   the last operation, arg its input, err its error, ret its return
\* pre  x as it was before the last operation
\* heap the mutable containers held by reference, by identity: used where
\*      object sharing is followed, empty elsewhere
VARIABLES x, x0, stored, y, op, arg, err, ret, pre, heap

vars == <<x, x0, stored, y, op, arg, err, ret, pre, heap>>

\* ------------------------------------------------------------- bounds
\* Largest number of observation pairs of an amplifier.
MaxObs == 2
\* Largest kernel side; kernel shapes are <<a, b>> with a <= b in Sides.
MaxSide == 5
\* A schema version that is neither 1.0 nor 1.1, in tenths.
FutureVersion == 20

\* ---------------------------------------------------- program constants
CurrentVersion == 11
LegacyVersion == 10
NaN == -1
\* detectorId=None
NoDetectorId == -1
\* The side of the kernel shape a new calibration has.
DefaultSide == 17

OBSTYPE == "bfk"

AmpOrder == <<"A", "B">>
DetOrder == <<"D0", "D1">>
Amps == {AmpOrder[i] : i \in 1..Len(AmpOrder)}
Dets == {DetOrder[i] : i \in 1..Len(DetOrder)}

NoErr == "none"
ErrObstype == "RuntimeError: Incorrect brighter-fatter kernel supplied"
ErrVersion == "RuntimeError: Unknown version for brighter-fatter kernel"
ErrInconsistent == "RuntimeError: Inconsistent number of observations found"
ErrCoerce == "ValueError: Could not coerce rawXcorrs into appropriate shape"
ErrReshape == "ValueError: cannot reshape array"
ErrKey == "KeyError"
ErrAttribute == "AttributeError"
ErrIndex == "IndexError"
ErrName == "NameError: name 'convertIntToFloat' is not defined"
ErrNoDetector == "RuntimeError: A detectorId must be supplied if level='AMP'"

None == [none |-> TRUE]
NothingStored == [form |-> "none"]
EmptyDict == <<>>
NoObjects == <<>>

\* ------------------------------------------------------ Python helpers
\* Keys of a dict in iteration order.
KeysInOrder(f, order) == SelectSeq(order, LAMBDA k : k \in DOMAIN f)

\* int(np.sqrt(n)) for n >= 0.
ISqrt(n) == CHOOSE k \in 0..n : k * k <= n /\ (k + 1) * (k + 1) > n

\* np.sum(mask): the number of true entries.
RECURSIVE SumMask(_)
SumMask(m) == IF m = <<>> THEN 0
              ELSE (IF Head(m) THEN 1 ELSE 0) + SumMask(Tail(m))

\* bool(v) of a validity value.
PyBool(v) == IF v \in {"True", "1"} THEN "True" ELSE "False"
\* `v is False`: identity with the False singleton.
IsFalse(v) == v = "False"
\* Truthiness of a validity value, as `v and ...` tests it.
Truthy(v) == v \in {"True", "1"}

\* ndarray.reshape(n) / .tolist() of a 2-D array: row-major flattening.
RECURSIVE Flatten2D(_)
Flatten2D(a) == IF a = <<>> THEN <<>> ELSE Head(a) \o Flatten2D(Tail(a))

\* Row-major flattening of a sequence of 2-D arrays.
RECURSIVE Flatten3D(_)
Flatten3D(s) == IF s = <<>> THEN <<>> ELSE Flatten2D(Head(s)) \o Flatten3D(Tail(s))

\* np.array(flat).reshape((r, c)), defined when Len(flat) = r * c.
Reshape2D(flat, r, c) ==
    [i \in 1..r |-> [j \in 1..c |-> flat[(i - 1) * c + j]]]

\* The same reshape in column-major (Fortran) order within each small array.
Reshape3DColumnMajor(flat, n, r, c) ==
    [k \in 1..n |-> [i \in 1..r |-> [j \in 1..c |->
        flat[(k - 1) * r * c + (j - 1) * r + i]]]]

\* np.array(flat).reshape((n, r, c)), defined when Len(flat) = n * r * c.
Reshape3D(flat, n, r, c) ==
    [k \in 1..n |-> [i \in 1..r |-> [j \in 1..c |->
        flat[(k - 1) * r * c + (i - 1) * c + j]]]]

\* np.array(xs).shape of rawXcorrs[amp]: of n small arrays it is
\* <<n, rows, columns>>; of an empty container it is emptyShape, <<0>> for
\* an empty list and <<0, rows, columns>> for an empty array.
CorrelationShape(xs, emptyShape) ==
    IF xs = <<>> THEN emptyShape
    ELSE <<Len(xs), Len(xs[1]), Len(xs[1][1])>>

\* np.full((r, c), np.nan)
FullNaN(r, c) == [i \in 1..r |-> [j \in 1..c |-> NaN]]

\* --------------------------------------------------------- getLengths
KernelLength(shape) == shape[1] * shape[2]
\* The small length taken of the whole sides, not of the sides less one.
SmallLengthOfSides(shape) == (shape[1] * shape[2]) \div 4
SmallLength(shape) == ((shape[1] - 1) * (shape[2] - 1)) \div 4
SmallSide(shape) == ISqrt(SmallLength(shape))

\* getLengths counting the observations in expIdMask instead of rawMeans.
getLengthsByMask(c) ==
    LET nObservations == {Len(c.expIdMask[a]) : a \in DOMAIN c.expIdMask}
    IN  IF c.level = "AMP"
        THEN IF Cardinality(nObservations) # 1
             THEN [err |-> ErrInconsistent]
             ELSE [err |-> NoErr,
                   kernelLength |-> KernelLength(c.shape),
                   smallLength |-> SmallLength(c.shape),
                   nObs |-> CHOOSE n \in nObservations : TRUE]
        ELSE [err |-> NoErr,
              kernelLength |-> KernelLength(c.shape),
              smallLength |-> SmallLength(c.shape),
              nObs |-> 0]

\* getLengths taking the first amplifier's count without comparing the rest.
getLengthsFirstAmp(c) ==
    LET ks == KeysInOrder(c.rawMeans, AmpOrder)
    IN  [err |-> NoErr,
         kernelLength |-> KernelLength(c.shape),
         smallLength |-> SmallLength(c.shape),
         nObs |-> IF c.level = "AMP" /\ ks # <<>>
                  THEN Len(c.rawMeans[Head(ks)]) ELSE 0]

getLengths(c) ==
    LET nObservations == {Len(c.rawMeans[a]) : a \in DOMAIN c.rawMeans}
    IN  IF c.level = "AMP"
        THEN IF Cardinality(nObservations) # 1
             THEN [err |-> ErrInconsistent]
             ELSE [err |-> NoErr,
                   kernelLength |-> KernelLength(c.shape),
                   smallLength |-> SmallLength(c.shape),
                   nObs |-> CHOOSE n \in nObservations : TRUE]
        ELSE [err |-> NoErr,
              kernelLength |-> KernelLength(c.shape),
              smallLength |-> SmallLength(c.shape),
              nObs |-> 0]

\* ------------------------------------------------- repackCorrelations
\* The loop with the read cursor advanced at every mask entry, true or not.
RECURSIVE RepackLoopByPosition(_, _, _, _)
RepackLoopByPosition(mask, xs, idx, cshape) ==
    IF mask = <<>> THEN [err |-> NoErr, out |-> <<>>]
    ELSE LET rest == RepackLoopByPosition(Tail(mask), xs, idx + 1, cshape)
         IN  IF Head(mask)
             THEN IF idx + 1 > Len(xs) THEN [err |-> ErrIndex, out |-> <<>>]
                  ELSE [err |-> rest.err, out |-> <<xs[idx + 1]>> \o rest.out]
             ELSE IF Len(cshape) < 3 THEN [err |-> ErrIndex, out |-> <<>>]
             ELSE [err |-> rest.err,
                   out |-> <<FullNaN(cshape[2], cshape[3])>> \o rest.out]

\* repackedCorrelations.append(v), the loop going on to `rest`.
Appended(v, rest) == [err |-> rest.err, out |-> <<v>> \o rest.out]

\* The loop of repackCorrelations: idx is the 0-based read cursor.  Reading
\* rawXcorrs[amp][idx] past its end, or correlationShape[1] of a shape
\* without that entry, raises IndexError.
RECURSIVE RepackLoop(_, _, _, _)
RepackLoop(mask, xs, idx, cshape) ==
    IF mask = <<>> THEN [err |-> NoErr, out |-> <<>>]
    ELSE IF Head(mask)
         THEN IF idx + 1 > Len(xs) THEN [err |-> ErrIndex, out |-> <<>>]
              ELSE Appended(xs[idx + 1],
                            RepackLoop(Tail(mask), xs, idx + 1, cshape))
         ELSE IF Len(cshape) < 3 THEN [err |-> ErrIndex, out |-> <<>>]
              ELSE Appended(FullNaN(cshape[2], cshape[3]),
                            RepackLoop(Tail(mask), xs, idx, cshape))

\* self.rawXcorrs[amp] = repackedCorrelations, if the loop r got there.
Repacked(c, amp, r) ==
    IF r.err # NoErr THEN [err |-> r.err, self |-> c]
    ELSE [err |-> NoErr, self |-> [c EXCEPT !.rawXcorrs[amp] = r.out]]

\* repackCorrelations(amp, correlationShape): the calibration afterwards.
repackCorrelations(c, amp, cshape) ==
    IF amp \notin DOMAIN c.expIdMask \/ amp \notin DOMAIN c.rawXcorrs
    THEN [err |-> ErrKey, self |-> c]
    ELSE Repacked(c, amp,
                  RepackLoop(c.expIdMask[amp], c.rawXcorrs[amp], 0, cshape))

\* ----------------------------------------------------- updateMetadata
\* The base class records the identity tag and the schema version; this
\* class adds LEVEL and the kernel shape.
BaseUpdateMetadata(md, kwargs) ==
    [k \in DOMAIN md \cup DOMAIN kwargs \cup {"OBSTYPE", "bfk_VERSION"} |->
        IF k \in DOMAIN kwargs THEN kwargs[k]
        ELSE IF k = "OBSTYPE" THEN OBSTYPE
        ELSE IF k = "bfk_VERSION" THEN CurrentVersion
        ELSE md[k]]

updateMetadata(c) ==
    BaseUpdateMetadata(c.metadata,
                       [LEVEL |-> c.level,
                        KERNEL_DX |-> c.shape[1],
                        KERNEL_DY |-> c.shape[2]])

\* The calibration after self.updateMetadata().
WithMetadata(c) == [c EXCEPT !.metadata = updateMetadata(c)]

MetaGet(md, k, default) == IF k \in DOMAIN md THEN md[k] ELSE default

\* ------------------------------------------------------------- toDict
Size2D(a) == Len(Flatten2D(a))

\* The first error of a sequence of outcomes, NoErr if there is none.
FirstErr(errs) ==
    IF \A i \in 1..Len(errs) : errs[i] = NoErr THEN NoErr
    ELSE errs[CHOOSE i \in 1..Len(errs) :
                 errs[i] # NoErr /\ \A j \in 1..(i - 1) : errs[j] = NoErr]

\* arr.reshape(kernelLength) of a kernel-shaped field: a list has no
\* reshape, an array of another size cannot be reshaped.
KernelFlattenErr(a, kernelLength) ==
    IF a = <<>> THEN ErrAttribute
    ELSE IF Size2D(a) # kernelLength THEN ErrReshape
    ELSE NoErr

\* The first failure of {k: d[k].reshape(kernelLength).tolist() for k in d}.
KernelsFlattenErr(d, ks, kernelLength) ==
    FirstErr([i \in 1..Len(ks) |-> KernelFlattenErr(d[ks[i]], kernelLength)])

\* np.array(self.rawXcorrs[amp]).reshape(nObs*smallLength)
XcorrsFlattenErr(xs, gl) ==
    IF Len(Flatten3D(xs)) # gl.nObs * gl.smallLength THEN ErrReshape ELSE NoErr

\* The first failure of the rawXcorrs comprehension of toDict (line 349).
AllXcorrsFlattenErr(d, ks, gl) ==
    FirstErr([i \in 1..Len(ks) |-> XcorrsFlattenErr(d[ks[i]], gl)])

\* The repack check repacking whatever the length is, without the test
\* against the number of true mask entries.
RepackUnchecked(c, amp, nObs, cshape) ==
    IF nObs # cshape[1]
    THEN IF amp \notin DOMAIN c.expIdMask THEN [err |-> ErrKey, self |-> c]
         ELSE repackCorrelations(c, amp, cshape)
    ELSE [err |-> NoErr, self |-> c]

\* The repack check repacking whenever the mask has a false entry, whatever
\* the length of rawXcorrs[amp] is.
RepackCheckedByMask(c, amp, nObs, cshape) ==
    IF amp \notin DOMAIN c.expIdMask THEN [err |-> ErrKey, self |-> c]
    ELSE IF nObs # SumMask(c.expIdMask[amp])
         THEN IF cshape[1] >= SumMask(c.expIdMask[amp])
              THEN repackCorrelations(c, amp, cshape)
              ELSE [err |-> ErrCoerce, self |-> c]
         ELSE [err |-> NoErr, self |-> c]

\* The repack check of one amplifier, correlationShape being cshape.
RepackChecked(c, amp, nObs, cshape) ==
    IF nObs # cshape[1]
    THEN IF amp \notin DOMAIN c.expIdMask THEN [err |-> ErrKey, self |-> c]
         ELSE IF cshape[1] = SumMask(c.expIdMask[amp])
              THEN repackCorrelations(c, amp, cshape)
              ELSE [err |-> ErrCoerce, self |-> c]
    ELSE [err |-> NoErr, self |-> c]

\* The repack check of toDict for one amplifier (lines 339-347).
RepackCheck(c, amp, nObs) ==
    RepackChecked(c, amp, nObs, CorrelationShape(c.rawXcorrs[amp], c.emptyShape))

\* The loop `for amp in self.rawXcorrs.keys()` of toDict: amplifiers before
\* the failing one stay repacked.
RECURSIVE RepackAll(_, _, _)
RECURSIVE RepackRest(_, _, _)
RepackRest(r, ks, nObs) ==
    IF r.err # NoErr THEN r ELSE RepackAll(r.self, ks, nObs)

RepackAll(c, ks, nObs) ==
    IF ks = <<>> THEN [err |-> NoErr, self |-> c]
    ELSE RepackRest(RepackCheck(c, Head(ks), nObs), Tail(ks), nObs)

\* An export that raised e, leaving the calibration as self.
ExportFailed(e, self) == [err |-> e, out |-> None, self |-> self]

\* The failure, if any, of lines 349-362 of toDict, in the order of the code.
FlattenErr(c, gl) ==
    FirstErr(<<AllXcorrsFlattenErr(c.rawXcorrs,
                                   KeysInOrder(c.rawXcorrs, AmpOrder), gl),
               KernelsFlattenErr(c.meanXcorrs,
                                 KeysInOrder(c.meanXcorrs, AmpOrder), gl.kernelLength),
               KernelsFlattenErr(c.ampKernels,
                                 KeysInOrder(c.ampKernels, AmpOrder), gl.kernelLength),
               KernelsFlattenErr(c.detKernels,
                                 KeysInOrder(c.detKernels, DetOrder), gl.kernelLength)>>)

\* outDict of toDict (lines 327-362).
OutDict(c) ==
    [metadata |-> c.metadata,
     expIdMask |-> c.expIdMask,
     rawMeans |-> c.rawMeans,
     rawVariances |-> c.rawVariances,
     rawXcorrs |-> [a \in DOMAIN c.rawXcorrs |-> Flatten3D(c.rawXcorrs[a])],
     badAmps |-> c.badAmps,
     gain |-> c.gain,
     noise |-> c.noise,
     meanXcorrs |-> [a \in DOMAIN c.meanXcorrs |-> Flatten2D(c.meanXcorrs[a])],
     ampKernels |-> [a \in DOMAIN c.ampKernels |-> Flatten2D(c.ampKernels[a])],
     valid |-> c.valid,
     detKernels |-> [k \in DOMAIN c.detKernels |-> Flatten2D(c.detKernels[k])]]

\* toDict from line 349 on: c is the calibration after the repack loop, e the
\* failure of a reshape.
ToDictFlattened(c, e) ==
    IF e # NoErr THEN ExportFailed(e, c)
    ELSE [err |-> NoErr, self |-> c, out |-> OutDict(c)]

\* toDict after the repack loop, whose outcome is rp.
ToDictRepacked(rp, gl) ==
    IF rp.err # NoErr THEN ExportFailed(rp.err, rp.self)
    ELSE ToDictFlattened(rp.self, FlattenErr(rp.self, gl))

\* toDict after getLengths, whose outcome is gl.
ToDictWithLengths(c, gl) ==
    IF gl.err # NoErr THEN ExportFailed(gl.err, c)
    ELSE ToDictRepacked(RepackAll(c, KeysInOrder(c.rawXcorrs, AmpOrder), gl.nObs),
                        gl)

\* toDict after self.updateMetadata().
ToDictWithMetadata(c) == ToDictWithLengths(c, getLengths(c))

\* toDict(): err, the mapping `out`, and the calibration `self` afterwards.
toDict(c) == ToDictWithMetadata(WithMetadata(c))

\* ----------------------------------------------------------- fromDict
\* np.repeat(False, n)
AllFalse(n) == [i \in 1..n |-> FALSE]

\* np.repeat(True, n)
AllTrue(n) == [i \in 1..n |-> TRUE]

\* A filter over a sequence of keys.
BadAmpsOf(valid) == SelectSeq(KeysInOrder(valid, AmpOrder),
                              LAMBDA a : IsFalse(valid[a]))

\* The version branch with every version but 1.0 read as the current layout.
VersionFieldsLenient(dict, calibVersion) ==
    IF calibVersion = LegacyVersion
    THEN IF ~ ({"means", "variances"} \subseteq DOMAIN dict)
         THEN [err |-> ErrKey]
         ELSE [err |-> NoErr,
               expIdMask |-> [a \in DOMAIN dict.means |->
                                 AllTrue(Len(dict.means[a]))],
               rawMeans |-> dict.means,
               rawVariances |-> dict.variances]
    ELSE IF ~ ({"expIdMask", "rawMeans", "rawVariances"} \subseteq DOMAIN dict)
         THEN [err |-> ErrKey]
         ELSE [err |-> NoErr,
               expIdMask |-> dict.expIdMask,
               rawMeans |-> dict.rawMeans,
               rawVariances |-> dict.rawVariances]

\* The version branch of fromDict (lines 265-285): the observation fields.
VersionFields(dict, calibVersion) ==
    IF calibVersion = LegacyVersion
    THEN IF ~ ({"means", "variances"} \subseteq DOMAIN dict)
         THEN [err |-> ErrKey]
         ELSE [err |-> NoErr,
               expIdMask |-> [a \in DOMAIN dict.means |->
                                 AllTrue(Len(dict.means[a]))],
               rawMeans |-> dict.means,
               rawVariances |-> dict.variances]
    ELSE IF calibVersion = CurrentVersion
    THEN IF ~ ({"expIdMask", "rawMeans", "rawVariances"} \subseteq DOMAIN dict)
         THEN [err |-> ErrKey]
         ELSE [err |-> NoErr,
               expIdMask |-> dict.expIdMask,
               rawMeans |-> dict.rawMeans,
               rawVariances |-> dict.rawVariances]
    ELSE [err |-> ErrVersion]

\* The identity tag accepted whatever it is.
ObstypeUnchecked(md) == TRUE

\* calib._OBSTYPE != dictionary['metadata']['OBSTYPE'], negated
ObstypeMatches(md) == OBSTYPE = md["OBSTYPE"]

\* An import that raised e: no calibration is returned.
ImportFailed(e) == [err |-> e, calib |-> None]

\* calib.level and calib.shape of fromDict (lines 261-263).
DictLevel(dict) == MetaGet(dict.metadata, "LEVEL", "AMP")
DictShape(dict) ==
    <<MetaGet(dict.metadata, "KERNEL_DX", 0), MetaGet(dict.metadata, "KERNEL_DY", 0)>>

\* np.array(flat).reshape(...) of a list of `size` values.
ReshapeErr(flat, size) == IF Len(flat) # size THEN ErrReshape ELSE NoErr

\* The first failure of {k: np.array(d[k]).reshape(...) for k in d}.
AllReshapeErr(d, ks, size) ==
    FirstErr([i \in 1..Len(ks) |-> ReshapeErr(d[ks[i]], size)])

\* The first failure of the meanXcorrs comprehension (lines 299-300), which
\* runs over the keys of rawXcorrs.
MeanXcorrsReshapeErr(d, ks, size) ==
    FirstErr([i \in 1..Len(ks) |->
                 IF ks[i] \notin DOMAIN d THEN ErrKey ELSE ReshapeErr(d[ks[i]], size)])

\* The failure, if any, of lines 291-307 of fromDict, in the order of the code.
DictReshapeErr(dict, nObs, side, shape) ==
    FirstErr(<<AllReshapeErr(dict.rawXcorrs,
                             KeysInOrder(dict.rawXcorrs, AmpOrder), nObs * side * side),
               MeanXcorrsReshapeErr(dict.meanXcorrs,
                                    KeysInOrder(dict.rawXcorrs, AmpOrder),
                                    shape[1] * shape[2]),
               AllReshapeErr(dict.ampKernels,
                             KeysInOrder(dict.ampKernels, AmpOrder), shape[1] * shape[2]),
               AllReshapeErr(dict.detKernels,
                             KeysInOrder(dict.detKernels, DetOrder), shape[1] * shape[2])>>)

\* The calibration fromDict builds (lines 261-307), before its updateMetadata.
CalibOfDict(dict, vf, nObs, side, shape) ==
    [level |-> DictLevel(dict),
     shape |-> shape,
     expIdMask |-> vf.expIdMask,
     rawMeans |-> vf.rawMeans,
     rawVariances |-> vf.rawVariances,
     rawXcorrs |-> [a \in DOMAIN dict.rawXcorrs |->
                       Reshape3D(dict.rawXcorrs[a], nObs, side, side)],
     gain |-> dict.gain,
     noise |-> dict.noise,
     meanXcorrs |-> [a \in DOMAIN dict.rawXcorrs |->
                        Reshape2D(dict.meanXcorrs[a], shape[1], shape[2])],
     ampKernels |-> [a \in DOMAIN dict.ampKernels |->
                        Reshape2D(dict.ampKernels[a], shape[1], shape[2])],
     valid |-> [a \in DOMAIN dict.valid |-> PyBool(dict.valid[a])],
     badAmps |-> BadAmpsOf(dict.valid),
     detKernels |-> [k \in DOMAIN dict.detKernels |->
                        Reshape2D(dict.detKernels[k], shape[1], shape[2])],
     emptyShape |-> <<0, side, side>>,
     metadata |-> dict.metadata]

\* fromDict from line 291 on, e being the failure of a reshape.
FromDictReshaped(dict, vf, nObs, side, e) ==
    IF e # NoErr THEN ImportFailed(e)
    ELSE [err |-> NoErr,
          calib |-> WithMetadata(CalibOfDict(dict, vf, nObs, side, DictShape(dict)))]

\* fromDict after getLengths (line 288), whose outcome is gl.
FromDictWithLengths(dict, vf, gl) ==
    IF gl.err # NoErr THEN ImportFailed(gl.err)
    ELSE FromDictReshaped(dict, vf, gl.nObs, ISqrt(gl.smallLength),
                          DictReshapeErr(dict, gl.nObs, ISqrt(gl.smallLength),
                                         DictShape(dict)))

\* fromDict after the version branch, whose outcome is vf.
FromDictWithFields(dict, vf) ==
    IF vf.err # NoErr THEN ImportFailed(vf.err)
    ELSE FromDictWithLengths(dict, vf,
                             getLengths([level |-> DictLevel(dict),
                                         shape |-> DictShape(dict),
                                         rawMeans |-> vf.rawMeans]))

\* fromDict(dictionary): err and the calibration returned.
fromDict(dict) ==
    IF "OBSTYPE" \notin DOMAIN dict.metadata THEN ImportFailed(ErrKey)
    ELSE IF ~ ObstypeMatches(dict.metadata) THEN ImportFailed(ErrObstype)
    ELSE IF "bfk_VERSION" \notin DOMAIN dict.metadata THEN ImportFailed(ErrKey)
    ELSE FromDictWithFields(dict, VersionFields(dict, dict.metadata["bfk_VERSION"]))

\* ------------------------------------------------------------ toTable
ErrType == "TypeError"

\* int(self.valid[amp]): the validity column without the badAmps list.
ValidColumnOfValidOnly(v, isBad) == IF Truthy(v) THEN 1 ELSE 0

\* int(not (amp in self.badAmps)): the validity column without valid.
ValidColumnOfBadAmpsOnly(v, isBad) == IF ~ isBad THEN 1 ELSE 0

\* int(self.valid[amp] and not (amp in self.badAmps))
ValidColumn(v, isBad) == IF Truthy(v) /\ ~ isBad THEN 1 ELSE 0

InSeq(e, s) == \E i \in 1..Len(s) : s[i] = e

\* A pass of the row loop that raised e, leaving the calibration as self.
RowFailed(e, self) == [err |-> e, self |-> self, row |-> None]

\* The row of amp (lines 479-500), the repack check done.
RowOf(c, amp) ==
    [AMPLIFIER |-> amp,
     EXP_ID_MASK |-> c.expIdMask[amp],
     RAW_MEANS |-> c.rawMeans[amp],
     RAW_VARIANCES |-> c.rawVariances[amp],
     RAW_XCORRS |-> Flatten3D(c.rawXcorrs[amp]),
     GAIN |-> c.gain[amp],
     NOISE |-> c.noise[amp],
     MEAN_XCORRS |-> Flatten2D(c.meanXcorrs[amp]),
     KERNEL |-> Flatten2D(c.ampKernels[amp]),
     VALID |-> ValidColumn(c.valid[amp], InSeq(amp, c.badAmps))]

\* Lines 494-500 for amp, in the order of the code.
RowErr(c, amp, gl) ==
    IF XcorrsFlattenErr(c.rawXcorrs[amp], gl) # NoErr THEN ErrReshape
    ELSE IF amp \notin DOMAIN c.gain \/ amp \notin DOMAIN c.noise
            \/ amp \notin DOMAIN c.meanXcorrs
    THEN ErrKey
    ELSE IF KernelFlattenErr(c.meanXcorrs[amp], gl.kernelLength) # NoErr
    THEN KernelFlattenErr(c.meanXcorrs[amp], gl.kernelLength)
    ELSE IF amp \notin DOMAIN c.ampKernels THEN ErrKey
    ELSE IF KernelFlattenErr(c.ampKernels[amp], gl.kernelLength) # NoErr
    THEN KernelFlattenErr(c.ampKernels[amp], gl.kernelLength)
    ELSE IF amp \notin DOMAIN c.valid THEN ErrKey
    ELSE IF c.valid[amp] = "[]" THEN ErrType
    ELSE NoErr

\* The pass for amp from line 494 on, e being its failure.
RowBuilt(c, amp, e) ==
    IF e # NoErr THEN RowFailed(e, c)
    ELSE [err |-> NoErr, self |-> c, row |-> RowOf(c, amp)]

\* The pass for amp after its repack check, whose outcome is rp.
RowRepacked(rp, amp, gl) ==
    IF rp.err # NoErr THEN RowFailed(rp.err, rp.self)
    ELSE RowBuilt(rp.self, amp, RowErr(rp.self, amp, gl))

\* One pass of the loop `for amp in self.rawMeans.keys()` of toTable
\* (lines 478-500): the row of amp, and the calibration after its repack.
TableRow(c, amp, gl) ==
    IF amp \notin DOMAIN c.expIdMask \/ amp \notin DOMAIN c.rawVariances
       \/ amp \notin DOMAIN c.rawXcorrs
    THEN RowFailed(ErrKey, c)
    ELSE RowRepacked(RepackCheck(c, amp, gl.nObs), amp, gl)

\* The rows so far with one more in front.
RowsWith(row, rest) ==
    [err |-> rest.err, self |-> rest.self, rows |-> <<row>> \o rest.rows]

RECURSIVE TableRows(_, _, _)
RECURSIVE TableRowsRest(_, _, _)
TableRowsRest(r, ks, gl) ==
    IF r.err # NoErr THEN [err |-> r.err, self |-> r.self, rows |-> <<>>]
    ELSE RowsWith(r.row, TableRows(r.self, ks, gl))

\* The loop `for amp in self.rawMeans.keys()` of toTable.
TableRows(c, ks, gl) ==
    IF ks = <<>> THEN [err |-> NoErr, self |-> c, rows |-> <<>>]
    ELSE TableRowsRest(TableRow(c, Head(ks), gl), Tail(ks), gl)

\* Table({...}): the rows regrouped column-wise.
Column(rows, name) == [i \in 1..Len(rows) |-> rows[i][name]]

AmpColumns == {"AMPLIFIER", "EXP_ID_MASK", "RAW_MEANS", "RAW_VARIANCES",
               "RAW_XCORRS", "GAIN", "NOISE", "MEAN_XCORRS", "KERNEL", "VALID"}

\* ampTable (lines 502-514)
AmpTable(c, rows) ==
    [meta |-> c.metadata, cols |-> [n \in AmpColumns |-> Column(rows, n)]]

\* detTable (lines 518-526)
DetTable(c, detKeys) ==
    [meta |-> c.metadata,
     cols |-> [DETECTOR |-> detKeys,
               KERNEL |-> [i \in 1..Len(detKeys) |->
                              Flatten2D(c.detKernels[detKeys[i]])]]]

\* toTable from line 517 on appending the detector table whether or not
\* there is a detector kernel.
ToTableTablesAlwaysTwo(c, rows, detKeys, e) ==
    IF e # NoErr THEN ExportFailed(e, c)
    ELSE [err |-> NoErr,
          self |-> c,
          out |-> <<AmpTable(c, rows), DetTable(c, detKeys)>>]

\* toTable from line 517 on, e being the failure of a detector kernel reshape.
ToTableTables(c, rows, detKeys, e) ==
    IF e # NoErr THEN ExportFailed(e, c)
    ELSE [err |-> NoErr,
          self |-> c,
          out |-> IF Len(detKeys) # 0
                  THEN <<AmpTable(c, rows), DetTable(c, detKeys)>>
                  ELSE <<AmpTable(c, rows)>>]

\* toTable after the row loop, whose outcome is tr.
ToTableWithRows(tr, gl) ==
    IF tr.err # NoErr THEN ExportFailed(tr.err, tr.self)
    ELSE ToTableTables(tr.self, tr.rows,
                       KeysInOrder(tr.self.detKernels, DetOrder),
                       KernelsFlattenErr(tr.self.detKernels,
                                         KeysInOrder(tr.self.detKernels, DetOrder),
                                         gl.kernelLength))

\* toTable after getLengths, whose outcome is gl.
ToTableWithLengths(c, gl) ==
    IF gl.err # NoErr THEN ExportFailed(gl.err, c)
    ELSE ToTableWithRows(IF c.level = "AMP"
                         THEN TableRows(c, KeysInOrder(c.rawMeans, AmpOrder), gl)
                         ELSE [err |-> NoErr, self |-> c, rows |-> <<>>],
                         gl)

\* toTable after self.updateMetadata().
ToTableWithMetadata(c) == ToTableWithLengths(c, getLengths(c))

\* toTable(): err, the table list `out`, and the calibration `self` afterwards.
toTable(c) == ToTableWithMetadata(WithMetadata(c))

\* ---------------------------------------------------------- fromTable
\* The number of pairs zip(keys, col) yields.
ZipLen(keys, col) == IF Len(keys) < Len(col) THEN Len(keys) ELSE Len(col)

\* {amp: v for amp, v in zip(amps, column)}: a repeated key keeps its last value.
ZipDict(keys, col) ==
    [k \in {keys[i] : i \in 1..ZipLen(keys, col)} |->
        col[CHOOSE i \in 1..ZipLen(keys, col) :
               keys[i] = k /\ \A j \in 1..ZipLen(keys, col) : keys[j] = k => j <= i]]

\* bool(valid) of an integer validity cell.
IntBool(n) == IF n # 0 THEN "True" ELSE "False"

\* The version branch of fromTable (lines 395-417).
TableVersionFields(cols, calibVersion) ==
    IF calibVersion = LegacyVersion
    THEN IF ~ ({"MEANS", "VARIANCES"} \subseteq DOMAIN cols) THEN [err |-> ErrKey]
         ELSE [err |-> NoErr,
               fields |-> [means |-> ZipDict(cols["AMPLIFIER"], cols["MEANS"]),
                           variances |-> ZipDict(cols["AMPLIFIER"], cols["VARIANCES"])]]
    ELSE IF calibVersion = CurrentVersion
    THEN IF ~ ({"EXP_ID_MASK", "RAW_MEANS", "RAW_VARIANCES"} \subseteq DOMAIN cols)
         THEN [err |-> ErrKey]
         ELSE [err |-> NoErr,
               fields |-> [expIdMask |-> ZipDict(cols["AMPLIFIER"], cols["EXP_ID_MASK"]),
                           rawMeans |-> ZipDict(cols["AMPLIFIER"], cols["RAW_MEANS"]),
                           rawVariances |-> ZipDict(cols["AMPLIFIER"],
                                                    cols["RAW_VARIANCES"])]]
    ELSE [err |-> ErrVersion]

\* inDict['valid'] (line 432)
TableValid(valid) == [a \in DOMAIN valid |-> IntBool(valid[a])]

\* inDict['detKernels'] (lines 436-441)
TableDetKernels(tableList) ==
    IF Len(tableList) > 1
    THEN ZipDict(tableList[2].cols["DETECTOR"], tableList[2].cols["KERNEL"])
    ELSE EmptyDict

\* The entries of inDict that do not depend on the version (lines 388, 419-441).
TableFields(tableList, cols, valid) ==
    [metadata |-> tableList[1].meta,
     rawXcorrs |-> ZipDict(cols["AMPLIFIER"], cols["RAW_XCORRS"]),
     gain |-> ZipDict(cols["AMPLIFIER"], cols["GAIN"]),
     noise |-> ZipDict(cols["AMPLIFIER"], cols["NOISE"]),
     meanXcorrs |-> ZipDict(cols["AMPLIFIER"], cols["MEAN_XCORRS"]),
     ampKernels |-> ZipDict(cols["AMPLIFIER"], cols["KERNEL"]),
     valid |-> valid,
     badAmps |-> BadAmpsOf(valid),
     detKernels |-> TableDetKernels(tableList)]

\* A dict with the entries of both.
Merged(a, b) ==
    [k \in DOMAIN a \cup DOMAIN b |-> IF k \in DOMAIN a THEN a[k] ELSE b[k]]

\* fromTable after the version branch, whose outcome is obs.
FromTableWithFields(tableList, cols, obs) ==
    IF obs.err # NoErr THEN ImportFailed(obs.err)
    ELSE IF ~ ({"RAW_XCORRS", "GAIN", "NOISE", "MEAN_XCORRS", "KERNEL", "VALID"}
                  \subseteq DOMAIN cols)
    THEN ImportFailed(ErrKey)
    ELSE fromDict(Merged(TableFields(tableList, cols,
                                     TableValid(ZipDict(cols["AMPLIFIER"],
                                                        cols["VALID"]))),
                         obs.fields))

\* fromTable(tableList): err and the calibration returned.
fromTable(tableList) ==
    IF "AMPLIFIER" \notin DOMAIN tableList[1].cols
       \/ "bfk_VERSION" \notin DOMAIN tableList[1].meta
    THEN ImportFailed(ErrKey)
    ELSE FromTableWithFields(tableList, tableList[1].cols,
                             TableVersionFields(tableList[1].cols,
                                                tableList[1].meta["bfk_VERSION"]))

\* ------------------------------------------- populated calibrations
IsNone(v) == "none" \in DOMAIN v

\* Kernel sides from the smallest with a non-empty small array,
\* smallLength = (3 - 1) * (3 - 1) / 4 = 1.
Sides == 3..MaxSide

Shapes == {s \in Sides \X Sides : s[1] <= s[2]}

\* All masks of at most MaxObs observations.
Masks == UNION {[1..n -> BOOLEAN] : n \in 0..MaxObs}

AmpIdx(a) == CHOOSE i \in 1..Len(AmpOrder) : AmpOrder[i] = a

\* Distinct values per amplifier, observation and coordinate, so that a
\* misplaced element is visible.
MeansOf(a, n) == [i \in 1..n |-> 100 * AmpIdx(a) + i]
VarsOf(a, n) == [i \in 1..n |-> 100 * AmpIdx(a) + 50 + i]
SmallOf(a, k, dims) ==
    [i \in 1..dims[1] |-> [j \in 1..dims[2] |->
        1000 * AmpIdx(a) + 100 * k + 10 * i + j]]
KernelOf(seed, shape) ==
    [i \in 1..shape[1] |-> [j \in 1..shape[2] |-> seed + 10 * i + j]]

\* The entries of xs at the true positions of mask: what outlier rejection
\* leaves of rawXcorrs[amp].
RECURSIVE Compact(_, _)
Compact(xs, mask) ==
    IF mask = <<>> \/ xs = <<>> THEN <<>>
    ELSE (IF Head(mask) THEN <<Head(xs)>> ELSE <<>>) \o Compact(Tail(xs), Tail(mask))

Forms == {"full", "compact", "long"}

XcorrsOf(a, mask, form, dims) ==
    LET n == Len(mask)
        full == [k \in 1..n |-> SmallOf(a, k, dims)]
    IN  IF form = "full" THEN full
        ELSE IF form = "compact" THEN Compact(full, mask)
        ELSE [k \in 1..(n + 1) |-> SmallOf(a, k, dims)]

\* The dimensions of one small array of rawXcorrs: side x side with
\* side = int(sqrt(smallLength)); where smallLength is no perfect square
\* also 1 x smallLength, the layout that holds smallLength values.
SmallDims(shape) ==
    {<<SmallSide(shape), SmallSide(shape)>>}
    \cup (IF SmallSide(shape) * SmallSide(shape) # SmallLength(shape)
          THEN {<<1, SmallLength(shape)>>} ELSE {})

Reverse(s) == [i \in 1..Len(s) |-> s[Len(s) + 1 - i]]

\* valid and badAmps together: consistent, or one signal without the other.
Validities ==
    {[valid |-> [A |-> "True", B |-> "True"], badAmps |-> <<>>],
     [valid |-> [A |-> "False", B |-> "True"], badAmps |-> <<"A">>],
     [valid |-> [A |-> "True", B |-> "False"], badAmps |-> <<"B">>],
     [valid |-> [A |-> "True", B |-> "True"], badAmps |-> <<"A">>],
     [valid |-> [A |-> "False", B |-> "True"], badAmps |-> <<>>]}

\* An amplifier-level calibration has no detector kernel, or the one an
\* aggregation stored.
ValidityAndDetKernels(shape) ==
    {<<v, EmptyDict>> : v \in Validities}
    \cup {<<v, [k \in {"D0"} |-> KernelOf(500, shape)]>> :
             v \in {w \in Validities : w.badAmps = <<"B">>}}

AmpCalib(shape, dims, es, maskA, formA, maskB, formB, v, dk) ==
    LET mask == [A |-> maskA, B |-> maskB]
        form == [A |-> formA, B |-> formB]
    IN  WithMetadata(
        [level |-> "AMP",
         shape |-> shape,
         expIdMask |-> mask,
         rawMeans |-> [a \in Amps |-> MeansOf(a, Len(mask[a]))],
         rawVariances |-> [a \in Amps |-> VarsOf(a, Len(mask[a]))],
         rawXcorrs |-> [a \in Amps |-> XcorrsOf(a, mask[a], form[a], dims)],
         gain |-> [a \in Amps |-> AmpIdx(a)],
         noise |-> [a \in Amps |-> 5 + AmpIdx(a)],
         meanXcorrs |-> [a \in Amps |-> KernelOf(100 * AmpIdx(a), shape)],
         ampKernels |-> [a \in Amps |-> KernelOf(300 + 100 * AmpIdx(a), shape)],
         valid |-> v.valid,
         badAmps |-> v.badAmps,
         detKernels |-> dk,
         emptyShape |-> es,
         metadata |-> EmptyDict])

DetCalib(shape, dk) ==
    WithMetadata(
        [level |-> "DETECTOR",
         shape |-> shape,
         expIdMask |-> EmptyDict, rawMeans |-> EmptyDict,
         rawVariances |-> EmptyDict, rawXcorrs |-> EmptyDict,
         gain |-> EmptyDict, noise |-> EmptyDict,
         meanXcorrs |-> EmptyDict, ampKernels |-> EmptyDict,
         valid |-> EmptyDict, badAmps |-> <<>>,
         detKernels |-> dk,
         emptyShape |-> <<0>>,
         metadata |-> EmptyDict])

\* The mask of amplifier B: A's mask reversed (the same observation count),
\* or one observation more (the amplifiers then disagree on the count).
MasksOfB(maskA) ==
    {Reverse(maskA)} \cup (IF Len(maskA) < MaxObs THEN {maskA \o <<TRUE>>} ELSE {})

\* An amplifier whose observations are all masked out holds, compacted, no
\* correlation at all.
AllMasked(mask, form) ==
    form = "compact" /\ mask # <<>> /\ \A i \in 1..Len(mask) : ~ mask[i]

\* What np.array(...).shape is of an empty rawXcorrs[amp]: that of an empty
\* array of small arrays, and, where an amplifier is all masked out, also
\* that of an empty list (elsewhere the two behave alike).
EmptyShapes(dims, maskA, formA, maskB, formB) ==
    {<<0, dims[1], dims[2]>>}
    \cup (IF AllMasked(maskA, formA) \/ AllMasked(maskB, formB)
          THEN {<<0>>} ELSE {})

AmpCalibs ==
    UNION {UNION {UNION {{AmpCalib(sm[1], dm[1], es, sm[2], ff[1], dm[2], ff[2],
                                   vd[1], vd[2]) :
                             es \in EmptyShapes(dm[1], sm[2], ff[1], dm[2], ff[2]),
                             vd \in ValidityAndDetKernels(sm[1])} :
                         ff \in Forms \X Forms} :
                  dm \in SmallDims(sm[1]) \X MasksOfB(sm[2])} :
           sm \in Shapes \X Masks}

DetCalibs ==
    UNION {{DetCalib(s, dk) :
               dk \in {EmptyDict,
                       [k \in {"D0"} |-> KernelOf(500, s)],
                       [k \in Dets |-> KernelOf(IF k = "D0" THEN 500 ELSE 700, s)]}} :
           s \in Shapes}

PopulatedCalibs == AmpCalibs \cup DetCalibs

\* ------------------------------------------------ persisted variants
\* What storage may hold in place of an exported mapping: the mapping as
\* written, the same data in the legacy (1.0) layout, with another schema
\* version, with the identity tag of another calibration type, or with the
\* validity flags in another encoding of true and false.
DictKinds == {"asIs", "legacy", "v20", "foreign", "foreignV20", "validInt",
              "validEmpty", "xcorrsOfFirst"}

DictVariant(m, kind) ==
    IF kind = "legacy"
    THEN [k \in (DOMAIN m \ {"expIdMask", "rawMeans", "rawVariances"})
                   \cup {"means", "variances"} |->
             IF k = "means" THEN m.rawMeans
             ELSE IF k = "variances" THEN m.rawVariances
             ELSE IF k = "metadata"
                  THEN [m.metadata EXCEPT !["bfk_VERSION"] = LegacyVersion]
             ELSE m[k]]
    ELSE IF kind = "v20"
    THEN [m EXCEPT !.metadata["bfk_VERSION"] = FutureVersion]
    ELSE IF kind = "foreign"
    THEN [m EXCEPT !.metadata["OBSTYPE"] = "ptc"]
    ELSE IF kind = "foreignV20"
    THEN [m EXCEPT !.metadata["OBSTYPE"] = "ptc",
                   !.metadata["bfk_VERSION"] = FutureVersion]
    ELSE IF kind = "validInt"
    THEN [m EXCEPT !.valid = [a \in DOMAIN m.valid |->
                                 IF Truthy(m.valid[a]) THEN "1" ELSE "0"]]
    ELSE IF kind = "validEmpty"
    THEN [m EXCEPT !.valid = [a \in DOMAIN m.valid |->
                                 IF Truthy(m.valid[a]) THEN "True" ELSE "[]"]]
    ELSE IF kind = "xcorrsOfFirst"
    THEN [m EXCEPT !.rawXcorrs = [a \in DOMAIN m.rawXcorrs \cap {AmpOrder[1]} |->
                                     m.rawXcorrs[a]]]
    ELSE m

TableKinds == {"asIs", "legacy", "v20", "foreign", "foreignV20"}

TableVariant(tl, kind) ==
    LET amp == tl[1]
        retag(tab, k, v) == [tab EXCEPT !.meta[k] = v]
        all(k, v) == [i \in 1..Len(tl) |-> retag(tl[i], k, v)]
    IN  IF kind = "legacy"
        THEN [all("bfk_VERSION", LegacyVersion) EXCEPT ![1].cols =
                 [n \in (DOMAIN amp.cols \ {"EXP_ID_MASK", "RAW_MEANS", "RAW_VARIANCES"})
                            \cup {"MEANS", "VARIANCES"} |->
                     IF n = "MEANS" THEN amp.cols["RAW_MEANS"]
                     ELSE IF n = "VARIANCES" THEN amp.cols["RAW_VARIANCES"]
                     ELSE amp.cols[n]]]
        ELSE IF kind = "v20" THEN all("bfk_VERSION", FutureVersion)
        ELSE IF kind = "foreign" THEN all("OBSTYPE", "ptc")
        ELSE IF kind = "foreignV20"
        THEN [i \in 1..Len(tl) |->
                 retag(retag(tl[i], "OBSTYPE", "ptc"), "bfk_VERSION", FutureVersion)]
        ELSE tl

\* ------------------------------------------------------------ actions
Init ==
    /\ x \in PopulatedCalibs
    /\ x0 = x
    /\ stored = NothingStored
    /\ y = None
    /\ op = "init"
    /\ arg = None
    /\ err = NoErr
    /\ ret = None
    /\ pre = x
    /\ heap = NoObjects

\* An export of x ended as r; what it returned is stored in `form`.
Exported(form, r) ==
    /\ x' = r.self
    /\ stored' = IF r.err = NoErr THEN [form |-> form, data |-> r.out]
                 ELSE stored
    /\ arg' = None
    /\ err' = r.err
    /\ ret' = r.out
    /\ y' = None
    /\ pre' = x
    /\ UNCHANGED <<x0, heap>>

\* The import `name` of `input`, a variant `kind` of what is stored, ended as r.
Imported(name, kind, input, r) ==
    /\ y' = r.calib
    /\ op' = name
    /\ arg' = [kind |-> kind, input |-> input]
    /\ err' = r.err
    /\ ret' = None
    /\ pre' = x
    /\ UNCHANGED <<x, x0, stored, heap>>

ImportedDict(kind, m) == Imported("fromDict", kind, m, fromDict(m))
ImportedTable(kind, tl) == Imported("fromTable", kind, tl, fromTable(tl))

\* x.toDict(), and the mapping is stored
ToDict ==
    /\ op' = "toDict"
    /\ Exported("dict", toDict(x))

\* x.toTable(), and the table list is stored
ToTable ==
    /\ op' = "toTable"
    /\ Exported("table", toTable(x))

\* y = BrighterFatterKernel.fromDict(m), m a variant of the stored mapping
FromDict ==
    /\ stored.form = "dict"
    /\ \E kind \in DictKinds : ImportedDict(kind, DictVariant(stored.data, kind))

\* y = BrighterFatterKernel.fromTable(tl), tl a variant of the stored tables
FromTable ==
    /\ stored.form = "table"
    /\ \E kind \in TableKinds : ImportedTable(kind, TableVariant(stored.data, kind))

Next == ToDict \/ ToTable \/ FromDict \/ FromTable

Spec == Init /\ [][Next]_vars

\* ------------------------------------- getLengths and repacking alone
\* x.getLengths()
GotLengths(r) ==
    /\ arg' = None
    /\ err' = r.err
    /\ ret' = r
    /\ pre' = x
    /\ UNCHANGED <<x, x0, stored, y, heap>>

GetLengths ==
    /\ op' = "getLengths"
    /\ GotLengths(getLengths(x))

RepackedAs(amp, cshape, r) ==
    /\ x' = r.self
    /\ op' = "repackCorrelations"
    /\ arg' = [amp |-> amp, shape |-> cshape]
    /\ err' = r.err
    /\ ret' = None
    /\ pre' = x
    /\ UNCHANGED <<x0, stored, y, heap>>

RepackedWith(amp, cshape) == RepackedAs(amp, cshape, repackCorrelations(x, amp, cshape))

\* x.repackCorrelations(amp, np.array(x.rawXcorrs[amp]).shape)
RepackCorrelations ==
    \E amp \in Amps :
        /\ amp \in DOMAIN x.rawXcorrs
        /\ RepackedWith(amp, CorrelationShape(x.rawXcorrs[amp], x.emptyShape))

\* Largest number of observation pairs of the calibrations repacked directly.
MaxRepackObs == 3

RepackMasks == UNION {[1..n -> BOOLEAN] : n \in 0..MaxRepackObs}

StandardDims(shape) == <<SmallSide(shape), SmallSide(shape)>>

AllValid == [valid |-> [a \in Amps |-> "True"], badAmps |-> <<>>]

\* Calibrations whose amplifier A has any mask and any form of rawXcorrs.
RepackCalibs ==
    UNION {{AmpCalib(smf[1], StandardDims(smf[1]), es, smf[2], smf[3],
                     Reverse(smf[2]), "full", AllValid, EmptyDict) :
               es \in EmptyShapes(StandardDims(smf[1]), smf[2], smf[3],
                                  Reverse(smf[2]), "full")} :
           smf \in Shapes \X RepackMasks \X Forms}

\* Calibrations whose observation-indexed fields have any lengths: nA and nB
\* observations of rawMeans, eB of B's mask, vB of B's variances.
SkewedCalib(s, level, nA, nB, eB, vB) ==
    [AmpCalib(s, StandardDims(s), <<0>>, AllTrue(nA), "full", AllTrue(eB), "full",
              AllValid, EmptyDict)
     EXCEPT !.level = level,
            !.metadata["LEVEL"] = level,
            !.rawMeans = [A |-> MeansOf("A", nA), B |-> MeansOf("B", nB)],
            !.rawVariances = [A |-> VarsOf("A", nA), B |-> VarsOf("B", vB)]]

SkewedCalibs ==
    {SkewedCalib(s, lv, n[1], n[2], n[3], n[4]) :
        s \in Shapes, lv \in {"AMP", "DETECTOR"},
        n \in (0..MaxObs) \X (0..MaxObs) \X (0..MaxObs) \X (0..MaxObs)}

\* BrighterFatterKernel(level=level) with no camera: no amplifier at all.
BareCalibs ==
    {[DetCalib(s, EmptyDict) EXCEPT !.level = lv, !.metadata["LEVEL"] = lv] :
        s \in Shapes, lv \in {"AMP", "DETECTOR"}}

InitLengths ==
    /\ x \in RepackCalibs \cup SkewedCalibs \cup BareCalibs
    /\ x0 = x
    /\ stored = NothingStored
    /\ y = None
    /\ op = "init"
    /\ arg = None
    /\ err = NoErr
    /\ ret = None
    /\ pre = x
    /\ heap = NoObjects

NextLengths == GetLengths \/ RepackCorrelations

SpecLengths == InitLengths /\ [][NextLengths]_vars

\* ------------------------------------- construction and initFromCamera
\* A camera is its name and its detectors in order; a detector its name, its
\* serial and its amplifiers in order; camera[detectorId] counts from 0.
AmpA == [name |-> "A", gain |-> 1, noise |-> 6]
AmpB == [name |-> "B", gain |-> 2, noise |-> 7]
AmpB1 == [name |-> "B", gain |-> 3, noise |-> 8]

Cameras ==
    {[name |-> "CamOne",
      detectors |-> <<[name |-> "D0", serial |-> "S0", amps |-> <<AmpA, AmpB>>]>>],
     [name |-> "CamTwo",
      detectors |-> <<[name |-> "D0", serial |-> "S0", amps |-> <<AmpA>>],
                      [name |-> "D1", serial |-> "S1", amps |-> <<AmpA, AmpB1>>]>>]}

Levels == {"AMP", "DETECTOR", "None"}

\* detectorId: None, or an index of the camera.
DetectorIds(camera) == {NoDetectorId} \cup (0..(Len(camera.detectors) - 1))

\* The calibration __init__ leaves before it looks at the camera.
NewCalib(level) ==
    [level |-> level,
     shape |-> <<DefaultSide, DefaultSide>>,
     expIdMask |-> EmptyDict, rawMeans |-> EmptyDict,
     rawVariances |-> EmptyDict, rawXcorrs |-> EmptyDict,
     badAmps |-> <<>>,
     gain |-> EmptyDict, noise |-> EmptyDict,
     meanXcorrs |-> EmptyDict, valid |-> EmptyDict,
     ampKernels |-> EmptyDict, detKernels |-> EmptyDict,
     emptyShape |-> <<0>>,
     metadata |-> EmptyDict,
     instrument |-> "None", detectorId |-> NoDetectorId,
     detectorName |-> "None", detectorSerial |-> "None"]

\* {amp.getName(): v for amp in detector}
AmpNames(detector) == [i \in 1..Len(detector.amps) |-> detector.amps[i].name]
EmptyPerAmp(detector) == [n \in {detector.amps[i].name : i \in 1..Len(detector.amps)} |-> <<>>]

\* Lines 185-197: badAmps is reset and every amplifier of the detector gets
\* its entries, the entries of other keys staying.
WithAmplifiers(c, detector) ==
    [c EXCEPT !.badAmps = <<>>,
              !.expIdMask = Merged(EmptyPerAmp(detector), c.expIdMask),
              !.rawMeans = Merged(EmptyPerAmp(detector), c.rawMeans),
              !.rawVariances = Merged(EmptyPerAmp(detector), c.rawVariances),
              !.rawXcorrs = Merged(EmptyPerAmp(detector), c.rawXcorrs),
              !.gain = Merged(ZipDict(AmpNames(detector),
                                      [i \in 1..Len(detector.amps) |->
                                          detector.amps[i].gain]), c.gain),
              !.noise = Merged(ZipDict(AmpNames(detector),
                                       [i \in 1..Len(detector.amps) |->
                                           detector.amps[i].noise]), c.noise),
              !.meanXcorrs = Merged(EmptyPerAmp(detector), c.meanXcorrs),
              !.ampKernels = Merged(EmptyPerAmp(detector), c.ampKernels),
              !.valid = Merged([n \in DOMAIN EmptyPerAmp(detector) |-> "[]"], c.valid)]

\* Lines 199-204: self.detKernels[name] = [] for every name of names.
WithDetectorKernels(c, names) ==
    [c EXCEPT !.detKernels = Merged([n \in names |-> <<>>], c.detKernels)]

\* initFromCamera populating every detector of the camera at level 'AMP'
\* when no detectorId is given, instead of raising.
InitLevelNoDetectorCheck(c, camera, detectorId) ==
    IF c.level = "AMP"
    THEN [err |-> NoErr,
          self |-> WithAmplifiers(c, camera.detectors[
                       IF detectorId = NoDetectorId THEN 1 ELSE detectorId + 1])]
    ELSE IF c.level = "DETECTOR"
    THEN [err |-> NoErr,
          self |-> WithDetectorKernels(c,
                       IF detectorId = NoDetectorId
                       THEN {camera.detectors[i].name : i \in 1..Len(camera.detectors)}
                       ELSE {c.detectorName})]
    ELSE [err |-> NoErr, self |-> c]

\* initFromCamera creating a detector kernel for every detector of the
\* camera whether or not a detectorId is given.
InitLevelAllDetectors(c, camera, detectorId) ==
    IF c.level = "AMP"
    THEN IF detectorId = NoDetectorId THEN [err |-> ErrNoDetector, self |-> c]
         ELSE [err |-> NoErr,
               self |-> WithAmplifiers(c, camera.detectors[detectorId + 1])]
    ELSE IF c.level = "DETECTOR"
    THEN [err |-> NoErr,
          self |-> WithDetectorKernels(c,
                       {camera.detectors[i].name : i \in 1..Len(camera.detectors)})]
    ELSE [err |-> NoErr, self |-> c]

\* Lines 181-206 of initFromCamera: the branch on self.level.
InitLevel(c, camera, detectorId) ==
    IF c.level = "AMP"
    THEN IF detectorId = NoDetectorId THEN [err |-> ErrNoDetector, self |-> c]
         ELSE [err |-> NoErr,
               self |-> WithAmplifiers(c, camera.detectors[detectorId + 1])]
    ELSE IF c.level = "DETECTOR"
    THEN [err |-> NoErr,
          self |-> WithDetectorKernels(c,
                       IF detectorId = NoDetectorId
                       THEN {camera.detectors[i].name : i \in 1..Len(camera.detectors)}
                       ELSE {c.detectorName})]
    ELSE [err |-> NoErr, self |-> c]

\* Lines 175-179: the detector looked up, if a detectorId is given.
WithDetector(c, camera, detectorId) ==
    IF detectorId = NoDetectorId THEN c
    ELSE [c EXCEPT !.detectorId = detectorId,
                   !.detectorName = camera.detectors[detectorId + 1].name,
                   !.detectorSerial = camera.detectors[detectorId + 1].serial]

\* Line 173
WithInstrument(c, camera) == [c EXCEPT !.instrument = camera.name]

\* initFromCamera(camera, detectorId): err and the calibration afterwards.
initFromCamera(c, camera, detectorId) ==
    InitLevel(WithDetector(WithInstrument(c, camera), camera, detectorId),
              camera, detectorId)

\* BrighterFatterKernel(camera=camera, level=level, detectorId=detectorId)
construct(camera, level, detectorId) ==
    IF IsNone(camera) THEN [err |-> NoErr, self |-> NewCalib(level)]
    ELSE initFromCamera(NewCalib(level), camera, detectorId)

InitializedAs(camera, detectorId, r) ==
    /\ x' = r.self
    /\ arg' = [camera |-> camera, detectorId |-> detectorId, level |-> x.level]
    /\ err' = r.err
    /\ ret' = IF r.err = NoErr THEN r.self ELSE None
    /\ pre' = x
    /\ UNCHANGED <<x0, stored, y, heap>>

\* x.initFromCamera(camera, detectorId=detectorId)
InitFromCamera ==
    \E camera \in Cameras : \E detectorId \in DetectorIds(camera) :
        /\ op' = "initFromCamera"
        /\ InitializedAs(camera, detectorId, initFromCamera(x, camera, detectorId))

ConstructedAs(camera, level, detectorId, r) ==
    /\ y' = IF r.err = NoErr THEN r.self ELSE None
    /\ arg' = [camera |-> camera, detectorId |-> detectorId, level |-> level]
    /\ err' = r.err
    /\ ret' = None
    /\ pre' = x
    /\ UNCHANGED <<x, x0, stored, heap>>

\* y = BrighterFatterKernel(camera=camera, level=level, detectorId=detectorId)
Construct ==
    \E camera \in Cameras \cup {None} : \E level \in Levels :
    \E detectorId \in IF IsNone(camera) THEN {NoDetectorId}
                      ELSE DetectorIds(camera) :
        /\ op' = "construct"
        /\ ConstructedAs(camera, level, detectorId,
                         construct(camera, level, detectorId))

InitCamera ==
    /\ x \in {NewCalib(level) : level \in Levels}
    /\ x0 = x
    /\ stored = NothingStored
    /\ y = None
    /\ op = "init"
    /\ arg = None
    /\ err = NoErr
    /\ ret = None
    /\ pre = x
    /\ heap = NoObjects

NextCamera == InitFromCamera \/ Construct

SpecCamera == InitCamera /\ [][NextCamera]_vars

\* ------------------------------ makeDetectorKernelFromAmpwiseKernels
RECURSIVE SumSeq(_)
SumSeq(vs) == IF vs = <<>> THEN 0 ELSE Head(vs) + SumSeq(Tail(vs))

\* afwMath.makeStatistics(values, afwMath.MEANCLIP, sctrl).getValue() for the
\* values of at most Len(AmpOrder) = 2 amplifiers: one or two values are
\* never 5 sigma from their centre, so nothing is clipped and the statistic
\* is their mean. The kernels below hold even numbers, which keeps the mean
\* of two of them exact.
MeanClip(vs) == SumSeq(vs) \div Len(vs)

\* The amplifiers whose kernels are stacked, every amplifier of ampKernels
\* included whatever ampsToExclude names.
IncludedAmpsAll(c, ampsToExclude) == KeysInOrder(c.ampKernels, AmpOrder)

\* for amp in self.ampKernels if amp not in ampsToExclude
IncludedAmps(c, ampsToExclude) ==
    SelectSeq(KeysInOrder(c.ampKernels, AmpOrder),
              LAMBDA a : a \notin ampsToExclude)

\* inKernels = np.array([self.ampKernels[amp] for amp in ...])
InKernels(c, amps) == [k \in 1..Len(amps) |-> c.ampKernels[amps[k]]]

\* averagingList[i, j] of averagingList = np.transpose(inKernels), counting
\* from 1: np.transpose reverses the axes (n, rows, cols) to (cols, rows, n),
\* so this is inKernels[:, j, i].
AveragingList(inKernels, i, j) ==
    [k \in 1..Len(inKernels) |-> inKernels[k][j][i]]

\* avgKernel after the loops, of the shape of inKernels[0].
AvgKernel(inKernels) ==
    [i \in 1..Len(inKernels[1]) |-> [j \in 1..Len(inKernels[1][1]) |->
        MeanClip(AveragingList(inKernels, i, j))]]

\* averagingList[i, j] is out of range for some (i, j) of the loops: i runs
\* over the rows of avgKernel but indexes an axis as long as its columns,
\* and j the reverse.
AveragingOutOfRange(inKernels) ==
    \E i \in 1..Len(inKernels[1]) : \E j \in 1..Len(inKernels[1][1]) :
        i > Len(inKernels[1][1]) \/ j > Len(inKernels[1])

\* Lines 559-568, inKernels built: inKernels[0] raises IndexError when no
\* kernel is included.
AggregatedKernels(c, detectorName, inKernels) ==
    IF inKernels = <<>> THEN [err |-> ErrIndex, self |-> c]
    ELSE IF AveragingOutOfRange(inKernels) THEN [err |-> ErrIndex, self |-> c]
    ELSE [err |-> NoErr,
          self |-> [c EXCEPT !.detKernels =
                       Merged([n \in {detectorName} |-> AvgKernel(inKernels)],
                              c.detKernels)]]

\* makeDetectorKernelFromAmpwiseKernels(detectorName, ampsToExclude)
makeDetectorKernelFromAmpwiseKernels(c, detectorName, ampsToExclude) ==
    AggregatedKernels(c, detectorName,
                      InKernels(c, IncludedAmps(c, ampsToExclude)))

\* Amplifier kernels of even numbers: one that differs from its transpose
\* and one that equals it where the shape is square.
SkewKernel(seed, shape) ==
    [i \in 1..shape[1] |-> [j \in 1..shape[2] |-> 2 * (seed + 10 * i + j)]]
SymmetricKernel(seed, shape) ==
    [i \in 1..shape[1] |-> [j \in 1..shape[2] |-> 2 * (seed + i * j)]]

AmpKernelsOf(shape) ==
    {[a \in Amps |-> SkewKernel(100 * AmpIdx(a), shape)],
     [a \in Amps |-> SymmetricKernel(100 * AmpIdx(a), shape)],
     [a \in Amps |-> IF a = "A" THEN SkewKernel(100, shape)
                     ELSE SymmetricKernel(300, shape)]}

\* Amplifier-level calibrations with populated amplifier kernels of any
\* shape, with and without detector kernels already stored.
AggregateCalibs ==
    UNION {{[AmpCalib(s, StandardDims(s), <<0>>, <<TRUE>>, "full", <<TRUE>>,
                      "full", AllValid, dk) EXCEPT !.ampKernels = ak] :
               ak \in AmpKernelsOf(s),
               dk \in {EmptyDict,
                       [k \in {"D1"} |-> KernelOf(700, s)],
                       [k \in Dets |-> KernelOf(IF k = "D0" THEN 500 ELSE 700, s)]}} :
           s \in Sides \X Sides}

AggregatedAs(detectorName, ampsToExclude, r) ==
    /\ x' = r.self
    /\ arg' = [detectorName |-> detectorName, ampsToExclude |-> ampsToExclude]
    /\ err' = r.err
    /\ ret' = None
    /\ pre' = x
    /\ UNCHANGED <<x0, stored, y, heap>>

\* x.makeDetectorKernelFromAmpwiseKernels(detectorName, ampsToExclude)
MakeDetectorKernel ==
    \E detectorName \in Dets : \E ampsToExclude \in SUBSET Amps :
        /\ op' = "makeDetectorKernel"
        /\ AggregatedAs(detectorName, ampsToExclude,
                        makeDetectorKernelFromAmpwiseKernels(x, detectorName,
                                                             ampsToExclude))

\* replaceDetectorKernelWithAmpKernel(ampName, detectorName), lines 570-571:
\* self.detKernel[detectorName] = self.ampKernel[ampName]. The right-hand
\* side is evaluated first; the attributes of the calibration are the fields
\* of c, which __init__ names ampKernels and detKernels.
replaceDetectorKernelWithAmpKernel(c, ampName, detectorName) ==
    IF "ampKernel" \notin DOMAIN c THEN [err |-> ErrAttribute, self |-> c]
    ELSE IF ampName \notin DOMAIN c.ampKernel THEN [err |-> ErrKey, self |-> c]
    ELSE IF "detKernel" \notin DOMAIN c THEN [err |-> ErrAttribute, self |-> c]
    ELSE [err |-> NoErr,
          self |-> [c EXCEPT !.detKernel =
                       Merged([n \in {detectorName} |-> c.ampKernel[ampName]],
                              c.detKernel)]]

ReplacedAs(ampName, detectorName, r) ==
    /\ x' = r.self
    /\ arg' = [ampName |-> ampName, detectorName |-> detectorName]
    /\ err' = r.err
    /\ ret' = None
    /\ pre' = x
    /\ UNCHANGED <<x0, stored, y, heap>>

\* x.replaceDetectorKernelWithAmpKernel(ampName, detectorName)
ReplaceDetectorKernel ==
    \E ampName \in Amps : \E detectorName \in Dets :
        /\ op' = "replaceDetectorKernel"
        /\ ReplacedAs(ampName, detectorName,
                      replaceDetectorKernelWithAmpKernel(x, ampName, detectorName))

InitAggregate ==
    /\ x \in AggregateCalibs
    /\ x0 = x
    /\ stored = NothingStored
    /\ y = None
    /\ op = "init"
    /\ arg = None
    /\ err = NoErr
    /\ ret = None
    /\ pre = x
    /\ heap = NoObjects

NextAggregate == MakeDetectorKernel \/ ReplaceDetectorKernel

SpecAggregate == InitAggregate /\ [][NextAggregate]_vars

\* ------------------------------------ objects shared by toDict / fromDict
\* The containers of a calibration and of a mapping followed by identity:
\* heap is the sequence of the objects created so far, a reference is an
\* index of it, and x, the mapping d (stored.data) and y hold references.
\* np.array(...).tolist() and the comprehensions build new objects; a plain
\* assignment stores the reference it is given.
SharedFields == {"gain", "noise", "valid", "badAmps"}

\* The objects a populated calibration owns, in the order of their
\* references below.
ObjectsOf(c) == <<c.gain, c.noise, c.valid, c.badAmps>>
OwnRefs == [gain |-> 1, noise |-> 2, valid |-> 3, badAmps |-> 4]

\* The references toDict puts in outDict for badAmps, gain, noise (lines
\* 351-353) and valid (line 359), and the heap afterwards: they are self's
\* own containers, and no object is created for them.
ToDictRefs(c, h) ==
    [out |-> [badAmps |-> c.badAmps,
              gain |-> c.gain,
              noise |-> c.noise,
              valid |-> c.valid],
     heap |-> h]

\* The references fromDict gives the new calibration (lines 296-297,
\* 304-305) and the heap afterwards: gain and noise are the mapping's own,
\* valid and badAmps are new.
FromDictRefs(d, h) ==
    [calib |-> [gain |-> d.gain,
                noise |-> d.noise,
                valid |-> Len(h) + 1,
                badAmps |-> Len(h) + 2],
     heap |-> h \o <<[a \in DOMAIN h[d.valid] |-> PyBool(h[d.valid][a])],
                     BadAmpsOf(h[d.valid])>>]

\* The holders of references: the calibration x, the mapping d, the
\* calibration y.
Holders == {"x", "d", "y"}
Exists(h) ==
    IF h = "x" THEN TRUE
    ELSE IF h = "d" THEN stored # NothingStored
    ELSE ~IsNone(y)
RefsOf(h) == IF h = "x" THEN x ELSE IF h = "d" THEN stored.data ELSE y

\* What a holder's fields hold, read through its references.
ViewOf(h) ==
    IF Exists(h) THEN [f \in SharedFields |-> heap[RefsOf(h)[f]]] ELSE None
Views == [h \in Holders |-> ViewOf(h)]

\* The value an assignment holder.field[amp] = ... stores.
NewEntry(field) == IF field = "valid" THEN "False" ELSE 9

\* d = x.toDict()
ShareToDict ==
    /\ stored = NothingStored
    /\ op' = "toDict"
    /\ stored' = [form |-> "dict", data |-> ToDictRefs(x, heap).out]
    /\ heap' = ToDictRefs(x, heap).heap
    /\ arg' = None
    /\ err' = NoErr
    /\ ret' = None
    /\ pre' = Views
    /\ UNCHANGED <<x, x0, y>>

\* y = BrighterFatterKernel.fromDict(d)
ShareFromDict ==
    /\ stored # NothingStored
    /\ IsNone(y)
    /\ op' = "fromDict"
    /\ y' = FromDictRefs(stored.data, heap).calib
    /\ heap' = FromDictRefs(stored.data, heap).heap
    /\ arg' = None
    /\ err' = NoErr
    /\ ret' = None
    /\ pre' = Views
    /\ UNCHANGED <<x, x0, stored>>

\* holder.field[amp] = NewEntry(field) for a dict field
SetEntry ==
    \E h \in Holders : \E f \in SharedFields \ {"badAmps"} : \E a \in Amps :
        /\ Exists(h)
        /\ op' = "setEntry"
        /\ heap' = [heap EXCEPT ![RefsOf(h)[f]][a] = NewEntry(f)]
        /\ arg' = [holder |-> h, field |-> f, amp |-> a]
        /\ err' = NoErr
        /\ ret' = None
        /\ pre' = Views
        /\ UNCHANGED <<x, x0, stored, y>>

\* holder.badAmps.append(amp)
AppendBadAmp ==
    \E h \in Holders : \E a \in Amps :
        /\ Exists(h)
        /\ ~InSeq(a, heap[RefsOf(h).badAmps])
        /\ op' = "setEntry"
        /\ heap' = [heap EXCEPT ![RefsOf(h).badAmps] = Append(@, a)]
        /\ arg' = [holder |-> h, field |-> "badAmps", amp |-> a]
        /\ err' = NoErr
        /\ ret' = None
        /\ pre' = Views
        /\ UNCHANGED <<x, x0, stored, y>>

\* A populated amplifier-level calibration with one observation, its four
\* containers on the heap.
InitShared ==
    /\ \E v \in {w \in Validities : w.badAmps = <<>>} :
          heap = ObjectsOf(AmpCalib(<<3, 3>>, <<1, 1>>, <<0>>, <<TRUE>>, "full",
                                    <<TRUE>>, "full", v, EmptyDict))
    /\ x = OwnRefs
    /\ x0 = x
    /\ stored = NothingStored
    /\ y = None
    /\ op = "init"
    /\ arg = None
    /\ err = NoErr
    /\ ret = None
    /\ pre = None

NextShared == ShareToDict \/ ShareFromDict \/ SetEntry \/ AppendBadAmp

SpecShared == InitShared /\ [][NextShared]_vars

\* ------------------------------------------------------- IsrTask.run
\* The names bound at module level in isrTask.py (its imports and classes):
\* what a bare name in a method body resolves against.
ModuleNames == {"afwImage", "measAlg", "cameraGeom", "pexConfig", "pipeBase",
                "isr", "UnmaskedNanCounterF", "AssembleCcdTask",
                "IsrTaskConfig", "IsrTask"}

\* The most amplifiers a ccd has here.
MaxAmps == 3

Configs == [doBias : BOOLEAN, doDark : BOOLEAN, doFlat : BOOLEAN,
            doWrite : BOOLEAN]

\* sensorRef: the ccd of its raw exposure has `amps` amplifiers; `raw` is
\* the class of the exposure, which only the method convertIntToFloat
\* (lines 197-209) looks at.
SensorRefs == [amps : 0..MaxAmps, raw : {"ExposureU", "ExposureF"}]

Step(name) == [step |-> name, amp |-> 0]

\* for amp in ccd: saturationDetection, then overscanCorrection (lines
\* 153-159), for the amplifiers from..n.
RECURSIVE AmpSteps(_, _)
AmpSteps(from, n) ==
    IF from > n THEN <<>>
    ELSE <<[step |-> "saturationDetection", amp |-> from],
           [step |-> "overscanCorrection", amp |-> from]>> \o AmpSteps(from + 1, n)

\* Lines 153-187, the calls in the order they are made.
StepsFrom153(config, sensorRef) ==
    AmpSteps(1, sensorRef.amps)
    \o (IF config.doBias THEN <<Step("biasCorrection")>> ELSE <<>>)
    \o (IF config.doDark THEN <<Step("darkCorrection")>> ELSE <<>>)
    \o <<Step("updateVariance")>>
    \o (IF config.doFlat THEN <<Step("flatCorrection")>> ELSE <<>>)
    \o <<Step("assembleCcd"), Step("maskAndInterpDefect"),
         Step("saturationInterpolation"), Step("maskAndInterpNan")>>
    \o (IF config.doWrite THEN <<Step("put")>> ELSE <<>>)
    \o <<Step("display")>>

\* run(sensorRef) in a module whose global names are `names`: line 151
\* calls the bare name convertIntToFloat, and a name that is not bound
\* raises NameError before any step is made.
run(config, sensorRef, names) ==
    IF "convertIntToFloat" \notin names
    THEN [err |-> ErrName, steps |-> <<>>, exposure |-> None]
    ELSE [err |-> NoErr,
          steps |-> StepsFrom153(config, sensorRef),
          exposure |-> [corrected |-> TRUE]]

RanAs(sensorRef, r) ==
    /\ arg' = sensorRef
    /\ err' = r.err
    /\ ret' = r
    /\ stored' = IF \E i \in 1..Len(r.steps) : r.steps[i].step = "put"
                 THEN [form |-> "visitCCD", data |-> r.exposure]
                 ELSE stored
    /\ pre' = x
    /\ UNCHANGED <<x, x0, y, heap>>

\* task.run(sensorRef), x being the task's config
Run ==
    \E sensorRef \in SensorRefs :
        /\ op' = "run"
        /\ RanAs(sensorRef, run(x, sensorRef, ModuleNames))

InitIsr ==
    /\ x \in Configs
    /\ x0 = x
    /\ stored = NothingStored
    /\ y = None
    /\ op = "init"
    /\ arg = None
    /\ err = NoErr
    /\ ret = None
    /\ pre = x
    /\ heap = NoObjects

NextIsr == Run

SpecIsr == InitIsr /\ [][NextIsr]_vars

\* ------------------------------------------------------------- claims
Fields == {"expIdMask", "rawMeans", "rawVariances", "rawXcorrs", "gain", "noise",
           "meanXcorrs", "ampKernels", "valid", "badAmps", "detKernels", "level",
           "shape"}

SameFields(a, b) == \A f \in Fields : a[f] = b[f]

\* The amplifiers agree on the observation count.
ConsistentCounts(c) == getLengths(c).err = NoErr

\* rawXcorrs[amp] is at full length or in the compacted form.
ObsWellFormed(c) ==
    \A a \in DOMAIN c.rawXcorrs :
        LET n == Len(c.rawXcorrs[a])
        IN  n = Len(c.expIdMask[a]) \/ n = SumMask(c.expIdMask[a])

\* badAmps lists exactly the amplifiers whose valid entry is false.
BadAmpsConsistent(c) == c.badAmps = BadAmpsOf(c.valid)

SquareSmall(shape) == SmallSide(shape) * SmallSide(shape) = SmallLength(shape)

RoundTripDict == op = "fromDict" /\ arg.kind = "asIs"
RoundTripTable == op = "fromTable" /\ arg.kind = "asIs"

\* The populated calibrations of an amplifier-level round trip: the
\* amplifiers agree on the observation count and rawXcorrs is at full or
\* compacted length.
Populated(c) == c.level = "AMP" /\ ConsistentCounts(c) /\ ObsWellFormed(c)

\* No amplifier with observations holds an empty list as rawXcorrs: a fully
\* masked amplifier's compacted rawXcorrs is an empty array of small arrays.
SmallShapeKnown(c) ==
    \A a \in DOMAIN c.rawXcorrs :
        (c.rawXcorrs[a] = <<>> /\ c.expIdMask[a] # <<>>) => Len(c.emptyShape) = 3

\* The number of true entries among the first i of mask.
Rank(mask, i) == Cardinality({j \in 1..i : mask[j]})

\* a is an r x c array of not-a-number.
IsPlaceholder(a, r, c) ==
    /\ Len(a) = r
    /\ \A i \in 1..r : Len(a[i]) = c /\ \A j \in 1..c : a[i][j] = NaN

\* xs is rawXcorrs of amplifier a of c, at full length: as stored if it was
\* full, with placeholders at the masked positions if it was compacted.
IsFullFormOf(xs, c, a) ==
    LET mask == c.expIdMask[a]
        old == c.rawXcorrs[a]
    IN  IF Len(old) = Len(mask) THEN xs = old
        ELSE /\ Len(xs) = Len(mask)
             /\ \A i \in 1..Len(mask) :
                    IF mask[i] THEN xs[i] = old[Rank(mask, i)]
                    ELSE IsPlaceholder(xs[i], SmallSide(c.shape), SmallSide(c.shape))

C3_RepackRestoresLength ==
    (op = "repackCorrelations"
        /\ Len(arg.shape) = 3
        /\ Len(pre.rawXcorrs[arg.amp]) = SumMask(pre.expIdMask[arg.amp]))
    => LET mask == pre.expIdMask[arg.amp]
           out == x.rawXcorrs[arg.amp]
       IN  /\ err = NoErr
           /\ Len(out) = Len(mask)
           /\ \A i \in 1..Len(mask) :
                  IF mask[i] THEN out[i] = pre.rawXcorrs[arg.amp][Rank(mask, i)]
                  ELSE IsPlaceholder(out[i], arg.shape[2], arg.shape[3])

C3_Witness ==
    /\ op = "repackCorrelations"
    /\ arg.amp = "A"
    /\ "A" \in DOMAIN pre.expIdMask
    /\ pre.shape = <<5, 5>>
    /\ pre.expIdMask["A"] = <<TRUE, FALSE, TRUE>>
    /\ Len(pre.rawXcorrs["A"]) = 2
    /\ err = NoErr
    /\ Len(x.rawXcorrs["A"]) = 3
    /\ x.rawXcorrs["A"][3] = pre.rawXcorrs["A"][2]

\* C4: toDict and toTable do not mutate the live calibration: every field of
\* x, rawXcorrs[amp] and its length in particular, is the same after the
\* export call as before it.
C4_ExportLeavesCalibration ==
    op \in {"toDict", "toTable"} => SameFields(x, pre)

\* C5: after an import, an amplifier is in badAmps if and only if its valid
\* entry is false, whatever encoding of falsity the source mapping used.
C5_BadAmpsIffInvalid ==
    (op \in {"fromDict", "fromTable"} /\ err = NoErr)
    => \A a \in DOMAIN y.valid : InSeq(a, y.badAmps) <=> y.valid[a] = "False"

\* The sizes of a mapping fit its shape: rawXcorrs holds nObs * side * side
\* values per amplifier.
SizesFit(m, nObs) ==
    LET shape == <<m.metadata["KERNEL_DX"], m.metadata["KERNEL_DY"]>>
    IN  \A a \in DOMAIN m.rawXcorrs :
            Len(m.rawXcorrs[a]) = nObs * SmallSide(shape) * SmallSide(shape)

SupportedVersions == {LegacyVersion, CurrentVersion}

\* C7: fromDict and fromTable on persisted brighter-fatter data whose schema
\* version is any value other than 1.0 or 1.1 fail with an
\* unsupported-version error and return no calibration.
C7_UnsupportedVersion ==
    /\ (op = "fromDict"
          /\ arg.input.metadata["OBSTYPE"] = OBSTYPE
          /\ arg.input.metadata["bfk_VERSION"] \notin SupportedVersions)
       => (err = ErrVersion /\ IsNone(y))
    /\ (op = "fromTable"
          /\ arg.input[1].meta["bfk_VERSION"] \notin SupportedVersions)
       => (err = ErrVersion /\ IsNone(y))

C7_Witness ==
    /\ op = "fromDict"
    /\ arg.kind = "v20"
    /\ arg.input.metadata["bfk_VERSION"] = FutureVersion
    /\ err = ErrVersion
    /\ IsNone(y)

\* C8: fromDict on a mapping whose metadata OBSTYPE differs from 'bfk' fails
\* with an identity-mismatch error before any field is read: whatever else
\* the mapping holds, no calibration is returned.
C8_ObstypeMismatch ==
    (op = "fromDict" /\ arg.input.metadata["OBSTYPE"] # OBSTYPE)
    => (err = ErrObstype /\ IsNone(y))

C8_Witness ==
    /\ op = "fromDict"
    /\ arg.kind = "foreignV20"
    /\ arg.input.metadata["OBSTYPE"] = "ptc"
    /\ err = ErrObstype
    /\ IsNone(y)

ObsFields == {"expIdMask", "rawMeans", "rawVariances"}

\* The lengths found in the observation-indexed fields of c.
ObsLengths(c) ==
    {Len(c[fa[1]][fa[2]]) :
        fa \in {ga \in ObsFields \X Amps : ga[2] \in DOMAIN c[ga[1]]}}

MeansLengths(c) == {Len(c.rawMeans[a]) : a \in DOMAIN c.rawMeans}

\* C9 as claimed: getLengths fails with an inconsistency error whenever
\* expIdMask, rawMeans and rawVariances do not all share one length across
\* all amplifiers.
C9_AnyFieldDisagreementDetected ==
    (op = "getLengths" /\ Cardinality(ObsLengths(x)) > 1)
    => err = ErrInconsistent

\* C9 as amended: getLengths fails with an inconsistency error exactly when
\* level == 'AMP' and the rawMeans lengths of the amplifiers are not exactly
\* one value; expIdMask and rawVariances are not examined.
C9_OnlyRawMeansExamined ==
    op = "getLengths"
    => /\ err \in {NoErr, ErrInconsistent}
       /\ err = ErrInconsistent
             <=> (x.level = "AMP" /\ Cardinality(MeansLengths(x)) # 1)

C9_Witness ==
    /\ op = "getLengths"
    /\ x.level = "AMP"
    /\ DOMAIN x.rawMeans = Amps
    /\ Len(x.rawMeans["A"]) = 2 /\ Len(x.rawMeans["B"]) = 2
    /\ Len(x.expIdMask["B"]) = 1
    /\ Len(x.rawVariances["B"]) = 0
    /\ err = NoErr

\* C10: getLengths at level == 'AMP' fails with an inconsistency error when
\* two amplifiers have rawMeans of differing lengths, and returns no lengths.
C10_DifferingMeansFail ==
    (op = "getLengths" /\ x.level = "AMP"
        /\ \E a, b \in DOMAIN x.rawMeans : Len(x.rawMeans[a]) # Len(x.rawMeans[b]))
    => (err = ErrInconsistent /\ DOMAIN ret = {"err"})

C10_Witness ==
    /\ op = "getLengths"
    /\ x.level = "AMP"
    /\ DOMAIN x.rawMeans = Amps
    /\ Len(x.rawMeans["A"]) = 1 /\ Len(x.rawMeans["B"]) = 2
    /\ err = ErrInconsistent
    /\ DOMAIN ret = {"err"}

\* C11: getLengths returns (kernelLength, smallLength, nObs) with
\* kernelLength = shape[0]*shape[1], smallLength =
\* floor((shape[0]-1)*(shape[1]-1)/4), nObs the common length of rawMeans
\* across the amplifiers when level == 'AMP' and 0 when level == 'DETECTOR';
\* it changes no field of the calibration.
C11_LengthsReturned ==
    (op = "getLengths" /\ err = NoErr)
    => /\ ret.kernelLength = x.shape[1] * x.shape[2]
       /\ 4 * ret.smallLength <= (x.shape[1] - 1) * (x.shape[2] - 1)
       /\ (x.shape[1] - 1) * (x.shape[2] - 1) < 4 * (ret.smallLength + 1)
       /\ x.level = "AMP" =>
              /\ DOMAIN x.rawMeans # {}
              /\ \A a \in DOMAIN x.rawMeans : Len(x.rawMeans[a]) = ret.nObs
       /\ x.level = "DETECTOR" => ret.nObs = 0
       /\ x = pre

C11_Witness ==
    /\ op = "getLengths"
    /\ err = NoErr
    /\ x.level = "AMP"
    /\ x.shape = <<3, 5>>
    /\ DOMAIN x.rawMeans = Amps
    /\ ret.kernelLength = 15
    /\ ret.smallLength = 2
    /\ ret.nObs = 2

\* xs is old repacked along mask: as long as the mask, the k-th element of
\* old where the mask has its k-th true entry, all not-a-number elsewhere.
RepackedFrom(xs, old, mask) ==
    /\ Len(xs) = Len(mask)
    /\ \A i \in 1..Len(mask) :
           IF mask[i] THEN xs[i] = old[Rank(mask, i)]
           ELSE \A r \in 1..Len(xs[i]) : \A q \in 1..Len(xs[i][r]) : xs[i][r][q] = NaN

\* The flattened rawXcorrs of amplifier a in what the last export returned.
ExportedXcorrs(a) ==
    IF op = "toDict" THEN ret.rawXcorrs[a]
    ELSE ret[1].cols["RAW_XCORRS"][AmpIdx(a)]

\* The amplifiers whose rawXcorrs is neither nObs long nor as long as the
\* mask has true entries.
Uncoercible(c, nObs) ==
    {a \in DOMAIN c.rawXcorrs :
        /\ Len(c.rawXcorrs[a]) # nObs
        /\ Len(c.rawXcorrs[a]) # SumMask(c.expIdMask[a])}

\* C12: on export (toDict and toTable), for each amplifier: when
\* len(rawXcorrs[amp]) equals nObs no repacking happens; when it differs from
\* nObs and equals the number of true entries of expIdMask[amp], it is
\* repacked before flattening; when it differs from both, the export fails
\* with a shape-inconsistency error (the coercion error, no earlier
\* amplifier having failed otherwise) and the sequence is neither truncated
\* nor padded.
C12_RepackOnExport ==
    (op \in {"toDict", "toTable"} /\ pre.level = "AMP"
        /\ getLengths(pre).err = NoErr)
    => LET nObs == getLengths(pre).nObs
           bad == Uncoercible(pre, nObs)
       IN  /\ \A a \in DOMAIN pre.rawXcorrs :
                  /\ Len(pre.rawXcorrs[a]) = nObs
                         => x.rawXcorrs[a] = pre.rawXcorrs[a]
                  /\ (Len(pre.rawXcorrs[a]) # nObs /\ a \notin bad /\ err = NoErr)
                         => /\ RepackedFrom(x.rawXcorrs[a], pre.rawXcorrs[a],
                                            pre.expIdMask[a])
                            /\ ExportedXcorrs(a) = Flatten3D(x.rawXcorrs[a])
                  /\ a \in bad => x.rawXcorrs[a] = pre.rawXcorrs[a]
           /\ bad # {} => err # NoErr
           /\ (bad # {} /\ SmallShapeKnown(pre)
                 /\ (op = "toTable" => SquareSmall(pre.shape)))
                 => err = ErrCoerce

C12_Witness ==
    /\ op = "toTable"
    /\ pre.level = "AMP"
    /\ getLengths(pre).err = NoErr
    /\ getLengths(pre).nObs = 2
    /\ Len(pre.rawXcorrs["A"]) = 1 /\ pre.expIdMask["A"] = <<FALSE, TRUE>>
    /\ Len(pre.rawXcorrs["B"]) = 3
    /\ err = ErrCoerce
    /\ Len(x.rawXcorrs["A"]) = 2
    /\ Len(x.rawXcorrs["B"]) = 3

\* C13: in the amplifier table toTable produces, the VALID column of each
\* amplifier row is the integer 1 exactly when valid[amp] is true and amp is
\* not in badAmps, and 0 otherwise.
C13_ValidColumn ==
    (op = "toTable" /\ err = NoErr /\ x.level = "AMP")
    => LET cols == ret[1].cols
       IN  /\ Len(cols["VALID"]) = Len(cols["AMPLIFIER"])
           /\ {cols["AMPLIFIER"][i] : i \in 1..Len(cols["AMPLIFIER"])}
                  = DOMAIN x.rawMeans
           /\ \A i \in 1..Len(cols["AMPLIFIER"]) :
                  /\ cols["VALID"][i] \in {0, 1}
                  /\ cols["VALID"][i] = 1
                        <=> (x.valid[cols["AMPLIFIER"][i]] = "True"
                               /\ ~ InSeq(cols["AMPLIFIER"][i], x.badAmps))

C13_Witness ==
    /\ op = "toTable" /\ err = NoErr /\ x.level = "AMP"
    /\ x.valid = [A |-> "True", B |-> "True"]
    /\ x.badAmps = <<"A">>
    /\ ret[1].cols["AMPLIFIER"] = <<"A", "B">>
    /\ ret[1].cols["VALID"] = <<0, 1>>

\* The per-amplifier fields of a calibration.
PerAmplifier(c) ==
    <<c.expIdMask, c.rawMeans, c.rawVariances, c.rawXcorrs, c.gain, c.noise,
      c.meanXcorrs, c.ampKernels, c.valid>>

\* The names of the amplifiers of detector detectorId of a camera.
AmpsOf(camera, detectorId) ==
    {camera.detectors[detectorId + 1].amps[i].name :
        i \in 1..Len(camera.detectors[detectorId + 1].amps)}

\* The amplifier called a of detector detectorId of a camera.
AmpOf(camera, detectorId, a) ==
    CHOOSE amp \in {camera.detectors[detectorId + 1].amps[i] :
                        i \in 1..Len(camera.detectors[detectorId + 1].amps)} :
        amp.name = a

FromCamera == op \in {"initFromCamera", "construct"} /\ ~IsNone(arg.camera)

\* C14: constructing or initialising a calibration from a camera at level
\* 'AMP' without a detector identifier fails with the RuntimeError, and no
\* per-amplifier entry is populated: an initialised calibration keeps the
\* per-amplifier fields it had, and a construction yields no calibration.
C14_AmpLevelNeedsDetector ==
    (FromCamera /\ arg.level = "AMP" /\ arg.detectorId = NoDetectorId)
    => /\ err = ErrNoDetector
       /\ op = "initFromCamera" => /\ PerAmplifier(x) = PerAmplifier(pre)
                                   /\ x.detKernels = pre.detKernels
                                   /\ x.badAmps = pre.badAmps
       /\ op = "construct" => IsNone(y)

C14_Witness ==
    /\ op = "initFromCamera"
    /\ arg.level = "AMP"
    /\ arg.detectorId = NoDetectorId
    /\ arg.camera.name = "CamTwo"
    /\ err = ErrNoDetector
    /\ x.instrument = "CamTwo"
    /\ pre.instrument = "CamOne"
    /\ DOMAIN x.gain = {"A", "B"}
    /\ x.gain = pre.gain

C14_WitnessConstruct ==
    /\ op = "construct"
    /\ arg.level = "AMP"
    /\ arg.detectorId = NoDetectorId
    /\ ~IsNone(arg.camera)
    /\ err = ErrNoDetector
    /\ IsNone(y)

\* C15: initFromCamera at level 'AMP' with a detector identifier gives
\* every per-amplifier field one entry per amplifier of that detector and
\* creates no other entry: the observation fields, meanXcorrs and
\* ampKernels are empty, gain and noise are the amplifier's gain and read
\* noise, and detKernels is untouched. At level 'DETECTOR' it creates one
\* empty detKernels entry per detector of the camera when no identifier is
\* given, one for the selected detector otherwise, and no per-amplifier
\* entry.
C15_EntriesFromCamera ==
    (FromCamera /\ err = NoErr /\ arg.level \in {"AMP", "DETECTOR"})
    => LET c == IF op = "construct" THEN y ELSE x
           before == IF op = "construct" THEN NewCalib(arg.level) ELSE pre
           camera == arg.camera
           id == arg.detectorId
       IN  /\ arg.level = "AMP" =>
                /\ id # NoDetectorId
                /\ \A f \in 1..Len(PerAmplifier(c)) :
                      /\ DOMAIN PerAmplifier(c)[f]
                            = DOMAIN PerAmplifier(before)[f] \cup AmpsOf(camera, id)
                      /\ \A a \in DOMAIN PerAmplifier(before)[f] \ AmpsOf(camera, id) :
                            PerAmplifier(c)[f][a] = PerAmplifier(before)[f][a]
                /\ \A a \in AmpsOf(camera, id) :
                      /\ c.expIdMask[a] = <<>>
                      /\ c.rawMeans[a] = <<>>
                      /\ c.rawVariances[a] = <<>>
                      /\ c.rawXcorrs[a] = <<>>
                      /\ c.meanXcorrs[a] = <<>>
                      /\ c.ampKernels[a] = <<>>
                      /\ c.gain[a] = AmpOf(camera, id, a).gain
                      /\ c.noise[a] = AmpOf(camera, id, a).noise
                /\ op = "construct" =>
                      \A f \in 1..Len(PerAmplifier(c)) :
                          DOMAIN PerAmplifier(c)[f] = AmpsOf(camera, id)
                /\ c.detKernels = before.detKernels
           /\ arg.level = "DETECTOR" =>
                LET names == IF id = NoDetectorId
                             THEN {camera.detectors[i].name :
                                      i \in 1..Len(camera.detectors)}
                             ELSE {camera.detectors[id + 1].name}
                IN  /\ DOMAIN c.detKernels = DOMAIN before.detKernels \cup names
                    /\ \A n \in names : c.detKernels[n] = <<>>
                    /\ \A n \in DOMAIN before.detKernels \ names :
                          c.detKernels[n] = before.detKernels[n]
                    /\ op = "construct" => DOMAIN c.detKernels = names
                    /\ PerAmplifier(c) = PerAmplifier(before)

C15_Witness ==
    /\ op = "initFromCamera"
    /\ arg.level = "AMP"
    /\ arg.camera.name = "CamTwo"
    /\ arg.detectorId = 0
    /\ err = NoErr
    /\ DOMAIN pre.gain = {"A", "B"}
    /\ pre.gain["B"] = 3
    /\ x.gain = [a \in {"A", "B"} |-> IF a = "A" THEN 1 ELSE 3]
    /\ x.noise = [a \in {"A", "B"} |-> IF a = "A" THEN 6 ELSE 8]
    /\ x.rawMeans = [a \in {"A", "B"} |-> <<>>]
    /\ x.detectorName = "D0"

C15_WitnessDetector ==
    /\ op = "initFromCamera"
    /\ arg.level = "DETECTOR"
    /\ arg.camera.name = "CamTwo"
    /\ arg.detectorId = 1
    /\ err = NoErr
    /\ pre.detKernels = EmptyDict
    /\ DOMAIN x.detKernels = {"D1"}
    /\ x.detKernels["D1"] = <<>>
    /\ x.gain = EmptyDict

\* The amplifiers of ampKernels of c that are not in ampsToExclude.
NotExcluded(c, ampsToExclude) ==
    SelectSeq(AmpOrder, LAMBDA a : a \in DOMAIN c.ampKernels \ ampsToExclude)

\* The ordinary mean, at coordinate (i, j), of the kernels of c of the
\* amplifiers not in ampsToExclude.
MeanAt(c, ampsToExclude, i, j) ==
    SumSeq([k \in 1..Len(NotExcluded(c, ampsToExclude)) |->
               c.ampKernels[NotExcluded(c, ampsToExclude)[k]][i][j]])
    \div Len(NotExcluded(c, ampsToExclude))

Aggregation == op = "makeDetectorKernel"

\* C17 as stated: whenever nothing is clipped, the stored detector kernel
\* holds at every coordinate (i, j) the ordinary mean over the included
\* amplifiers of ampKernels[amp][i][j].
C17_MeanAtEachCoordinate ==
    (Aggregation /\ err = NoErr)
    => \A i \in 1..pre.shape[1] : \A j \in 1..pre.shape[2] :
          x.detKernels[arg.detectorName][i][j]
            = MeanAt(pre, arg.ampsToExclude, i, j)

C19_NoSharedState ==
    (op = "setEntry" /\ Exists("d") /\ Exists("y"))
    => /\ arg.holder \in {"d", "y"} => ViewOf("x") = pre["x"]
       /\ arg.holder = "x" => ViewOf("d") = pre["d"] /\ ViewOf("y") = pre["y"]

\* C20: a successful toTable returns the amplifier table first, with one
\* row per amplifier (of rawMeans, in order) at level 'AMP' and none at
\* another level, and a second table exactly when detKernels is non-empty,
\* that table holding one row per detector with its identifier and its
\* flattened kernel. Every table carries the metadata updateMetadata leaves
\* on the calibration, which is the metadata of toDict's mapping: the schema
\* version, LEVEL = level, KERNEL_DX and KERNEL_DY = shape.
C20_TableList ==
    (op = "toTable" /\ err = NoErr)
    => /\ Len(ret) = (IF DOMAIN x.detKernels # {} THEN 2 ELSE 1)
       /\ DOMAIN ret[1].cols = AmpColumns
       /\ \A n \in AmpColumns :
             Len(ret[1].cols[n]) = Len(ret[1].cols["AMPLIFIER"])
       /\ ret[1].cols["AMPLIFIER"]
             = (IF x.level = "AMP" THEN KeysInOrder(x.rawMeans, AmpOrder)
                ELSE <<>>)
       /\ Len(ret) = 2 =>
             /\ ret[2].cols["DETECTOR"] = KeysInOrder(x.detKernels, DetOrder)
             /\ Len(ret[2].cols["KERNEL"]) = Len(ret[2].cols["DETECTOR"])
             /\ \A i \in 1..Len(ret[2].cols["DETECTOR"]) :
                   ret[2].cols["KERNEL"][i]
                     = Flatten2D(x.detKernels[ret[2].cols["DETECTOR"][i]])
       /\ \A t \in 1..Len(ret) :
             /\ ret[t].meta = updateMetadata(pre)
             /\ ret[t].meta = x.metadata
             /\ ret[t].meta["bfk_VERSION"] = CurrentVersion
             /\ ret[t].meta["LEVEL"] = x.level
             /\ ret[t].meta["KERNEL_DX"] = x.shape[1]
             /\ ret[t].meta["KERNEL_DY"] = x.shape[2]
             /\ toDict(x).err = NoErr => toDict(x).out.metadata = ret[t].meta

C20_Witness ==
    /\ op = "toTable" /\ err = NoErr /\ x.level = "AMP"
    /\ Len(ret) = 2
    /\ ret[1].cols["AMPLIFIER"] = <<"A", "B">>
    /\ ret[2].cols["DETECTOR"] = <<"D0">>
    /\ ret[2].cols["KERNEL"] = <<Flatten2D(KernelOf(500, <<3, 5>>))>>
    /\ x.shape = <<3, 5>>
    /\ ret[2].meta["KERNEL_DY"] = 5
    /\ ret[2].meta = ret[1].meta
    /\ toDict(x).err = NoErr

C20_WitnessDetectorLevel ==
    /\ op = "toTable" /\ err = NoErr /\ x.level = "DETECTOR"
    /\ Len(ret) = 2
    /\ ret[1].cols["AMPLIFIER"] = <<>>
    /\ ret[2].cols["DETECTOR"] = <<"D0", "D1">>
    /\ ret[1].meta["LEVEL"] = "DETECTOR"

Exporting == op \in {"toDict", "toTable"}

\* C21: after a successful toDict or toTable, a second export of either
\* form on the same calibration succeeds and repacks nothing (the
\* calibration stays as the first call left it); an export of the same form
\* returns what the first returned, and an export of the other form what it
\* returns on the calibration as it was before the first.
C21_ExportRepeatable ==
    (Exporting /\ err = NoErr)
    => /\ toDict(x).err = NoErr
       /\ toDict(x).self = x
       /\ toTable(x).err = NoErr
       /\ toTable(x).self = x
       /\ op = "toDict" => /\ toDict(x).out = ret
                           /\ toTable(x).out = toTable(pre).out
       /\ op = "toTable" => /\ toTable(x).out = ret
                            /\ toDict(x).out = toDict(pre).out

C21_Witness ==
    /\ op = "toDict" /\ err = NoErr /\ pre.level = "AMP"
    /\ pre.expIdMask["A"] = <<FALSE, TRUE>>
    /\ Len(pre.rawXcorrs["A"]) = 1
    /\ Len(x.rawXcorrs["A"]) = 2
    /\ toDict(x).self = x
    /\ toDict(x).out = ret
    /\ toTable(x).err = NoErr

\* C22 as stated: when toDict or toTable fails with the coercion error,
\* rawXcorrs of every amplifier is as it was before the call.
C22_FailedExportLeavesXcorrs ==
    (Exporting /\ err = ErrCoerce) => x.rawXcorrs = pre.rawXcorrs

\* C23 as stated: after a successful fromDict, rawXcorrs, meanXcorrs and
\* ampKernels of the calibration have the amplifier keys of the same-named
\* field of the mapping, whatever the key sets of the mapping's fields are.
C23_KeysOfSameField ==
    (op = "fromDict" /\ err = NoErr)
    => /\ DOMAIN y.rawXcorrs = DOMAIN arg.input.rawXcorrs
       /\ DOMAIN y.meanXcorrs = DOMAIN arg.input.meanXcorrs
       /\ DOMAIN y.ampKernels = DOMAIN arg.input.ampKernels

\* C24 as stated: replaceDetectorKernelWithAmpKernel(ampName, detectorName)
\* with ampName in ampKernels completes without error and leaves
\* detKernels[detectorName] equal to ampKernels[ampName], every other entry
\* and field unchanged.
C24_ReplacesDetectorKernel ==
    (op = "replaceDetectorKernel" /\ arg.ampName \in DOMAIN pre.ampKernels)
    => /\ err = NoErr
       /\ arg.detectorName \in DOMAIN x.detKernels
       /\ x.detKernels[arg.detectorName] = pre.ampKernels[arg.ampName]
       /\ \A n \in DOMAIN pre.detKernels \ {arg.detectorName} :
             n \in DOMAIN x.detKernels /\ x.detKernels[n] = pre.detKernels[n]
       /\ [x EXCEPT !.detKernels = pre.detKernels] = pre

\* The positions of the steps called name in a sequence of steps.
PositionsOf(steps, name) == {i \in 1..Len(steps) : steps[i].step = name}

Before(steps, first, second) ==
    \A i \in PositionsOf(steps, first) : \A j \in PositionsOf(steps, second) :
        i < j

\* The order the claim gives to the steps of one run.
InClaimedOrder(steps, config, amps) ==
    /\ \A a \in 1..amps :
          \E i \in 1..Len(steps) :
              /\ steps[i] = [step |-> "saturationDetection", amp |-> a]
              /\ i < Len(steps)
              /\ steps[i + 1] = [step |-> "overscanCorrection", amp |-> a]
    /\ PositionsOf(steps, "biasCorrection") # {} <=> config.doBias
    /\ PositionsOf(steps, "darkCorrection") # {} <=> config.doDark
    /\ PositionsOf(steps, "flatCorrection") # {} <=> config.doFlat
    /\ PositionsOf(steps, "put") # {} <=> config.doWrite
    /\ \A n \in {"updateVariance", "assembleCcd", "maskAndInterpDefect",
                  "saturationInterpolation", "maskAndInterpNan"} :
          Cardinality(PositionsOf(steps, n)) = 1
    /\ Before(steps, "overscanCorrection", "biasCorrection")
    /\ Before(steps, "overscanCorrection", "darkCorrection")
    /\ Before(steps, "overscanCorrection", "updateVariance")
    /\ Before(steps, "biasCorrection", "darkCorrection")
    /\ Before(steps, "darkCorrection", "updateVariance")
    /\ Before(steps, "updateVariance", "flatCorrection")
    /\ Before(steps, "updateVariance", "assembleCcd")
    /\ Before(steps, "flatCorrection", "assembleCcd")
    /\ Before(steps, "saturationDetection", "assembleCcd")
    /\ Before(steps, "assembleCcd", "maskAndInterpDefect")
    /\ Before(steps, "maskAndInterpDefect", "saturationInterpolation")
    /\ Before(steps, "saturationInterpolation", "maskAndInterpNan")
    /\ Before(steps, "maskAndInterpNan", "put")

\* C25 as stated: every execution of run makes the steps in the claimed
\* order, persists the exposure only if doWrite and after the steps, and
\* returns the corrected exposure.
C25_RunInOrderAndReturns ==
    op = "run"
    => /\ InClaimedOrder(ret.steps, x, arg.amps)
       /\ err = NoErr
       /\ ret.exposure = [corrected |-> TRUE]
       /\ stored # NothingStored => x.doWrite

\* What lines 153-187 would do were the name of line 151 bound: the steps
\* are in the claimed order and the exposure is returned.
C25_OrderWereTheNameBound ==
    op = "run"
    => /\ InClaimedOrder(run(x, arg, ModuleNames \cup {"convertIntToFloat"}).steps,
                         x, arg.amps)
       /\ run(x, arg, ModuleNames \cup {"convertIntToFloat"}).err = NoErr

====
